---------------------------- MODULE Spec2Model ----------------------------
(***************************************************************************)
(* A model of barcode-vote-classifier (src/barcode_vote_classifier/cli.py) *)
(*                                                                         *)
(*   SpecDownload : cmd_download / download_file, the checksum-verified    *)
(*                  acquisition of the reference artifact                  *)
(*   SpecResolve  : resolve_ref_path, the precedence lookup                *)
(*   SpecFilter   : the hit filter of cmd_classify on one record           *)
(*   SpecClassify : cmd_classify, the aligner process, its two pipes, the  *)
(*                  streaming loop and the final results                   *)
(*   SpecVotes    : the same run on hits that tie, share a category or     *)
(*                  carry a negative matched-base count                    *)
(*   SpecSkip     : the same run on malformed and blank lines              *)
(*   SpecInterrupt: the same run from the call of cmd_classify to the exit *)
(*                  of the process, with Ctrl-C at any point               *)
(*   SpecParse    : parse_paf_line on one line                             *)
(*   SpecMain     : main, from a subcommand's outcome to the exit status   *)
(*   SpecAcquirers: download_file in two processes with one destination    *)
(*                                                                         *)
(* Text is a sequence of characters.  Digests and config values use        *)
(* one-character strings; identifiers that the program sorts use code      *)
(* points, so that Python's string order can be computed.                  *)
(***************************************************************************)
EXTENDS Integers, Sequences, FiniteSets, TLC

VARIABLES
    \* ---- acquisition (cmd_download, download_file)
    dl_args,      \* argparse namespace of `download`: url, sha256, force, write_config
    dl_env,       \* BARCODE_REF_URL / BARCODE_REF_SHA256
    remote,       \* the bytes the server sends for the URL
    dest,         \* the file at <target_dir>/barcode_ref.mmi
    tmp,          \* the file at <target_dir>/barcode_ref.mmi.tmp
    dest0,        \* dest as it was when cmd_download was called
    tmp0,         \* tmp as it was when cmd_download was called
    sha,          \* local `sha` of cmd_download after _validate_sha256
    got,          \* local `got` of download_file
    dl_pc,        \* position of the acquiring process
    dl_err,       \* the exception that ended cmd_download, "" if none
    netio,        \* number of network requests issued so far
    cfg_written,  \* write_config_ref has run
    seen,         \* what the latest reader of the destination path observed
    \* ---- reference resolution (resolve_ref_path)
    rs_cli,       \* the cli_ref argument ("" when --ref is not given)
    rs_prefer,    \* the prefer_tmp_cache argument
    rs_env,       \* environment: BARCODE_REF_MMI, TMPDIR, XDG_CACHE_HOME
    rs_cfg,       \* the config file: absent, or its lines
    rs_fs,        \* the files at the paths resolution can look at
    rs_pc,        \* position of the resolving process
    rs_result,    \* what resolve_ref_path returned or raised
    \* ---- the hit filter on one record
    ft_rec,       \* the parsed record
    ft_args,      \* id_thr, cov_thr, min_mapq
    ft_verdict,   \* what the filter decided
    ft_pc,
    \* ---- classification (cmd_classify and the aligner process)
    cl_args,      \* argparse namespace of `classify`
    plan,         \* what the aligner has still to write, in order
    out_pipe,     \* lines in the stdout pipe
    err_pipe,     \* lines in the stderr pipe
    al_pc,        \* the aligner: "running" or "exited"
    rc,           \* the aligner's exit code
    cl_pc,        \* position of cmd_classify
    vote_bins,    \* query id -> categories and weights, in dict order
    total_paf,    \* non-blank lines seen
    kept_hits,    \* retained hits
    hits_file,    \* <prefix>.filtered_hits.tsv
    final_file,   \* <prefix>.final_results.tsv
    stderr,       \* what proc.stderr.read() returned
    cl_err,       \* the exception that ended cmd_classify, "" if none
    consumed,     \* history: the lines read from stdout, in order
    retained,     \* history: the retained hits, in order
    shown,        \* what cmd_classify printed to its own standard error
    stats,        \* local `stats` of cmd_classify: category -> rows won
    \* ---- parse_paf_line on one line
    ps_fields,    \* the fields the line was written from
    ps_line,      \* the line
    ps_rec,       \* what parse_paf_line returned
    ps_pc,
    \* ---- main, invoked again and again
    mn_cmd,       \* the subcommand of the running invocation
    mn_pc,        \* position of main
    mn_exc,       \* the exception args.func(args) raised
    exit_code,    \* the exit status of the process, -1 while it runs
    codes,        \* history: outcome of an invocation -> exit statuses seen
    \* ---- two acquisitions of the same destination (download_file)
    aq,           \* per acquirer: position, server bytes, open file, digest
    inodes,       \* the file contents, by inode
    aq_dest,      \* the inode linked at <target_dir>/barcode_ref.mmi, 0 if none
    aq_tmp        \* the inode linked at <target_dir>/barcode_ref.mmi.tmp, 0 if none

dlVars == <<dl_args, dl_env, remote, dest, tmp, dest0, tmp0, sha, got,
            dl_pc, dl_err, netio, cfg_written, seen>>

rsVars == <<rs_cli, rs_prefer, rs_env, rs_cfg, rs_fs, rs_pc, rs_result>>

ftVars == <<ft_rec, ft_args, ft_verdict, ft_pc>>

clVars == <<cl_args, plan, out_pipe, err_pipe, al_pc, rc, cl_pc, vote_bins,
            total_paf, kept_hits, hits_file, final_file, stderr, cl_err,
            consumed, retained, shown, stats>>

psVars == <<ps_fields, ps_line, ps_rec, ps_pc>>

mnVars == <<mn_cmd, mn_pc, mn_exc, exit_code, codes>>

aqVars == <<aq, inodes, aq_dest, aq_tmp>>

vars == <<dlVars, rsVars, ftVars, clVars, psVars, mnVars, aqVars>>

-----------------------------------------------------------------------------
(* Bounds *)

\* longest file content, in bytes
MaxFileLen == 2

\* most lines in the config file
MaxCfgLines == 2

\* greatest field value of a record given to the filter
MaxVal == 4

\* most lines the aligner writes, stdout and stderr together
MaxStream == 3

\* lines a pipe holds before a write to it blocks
PipeCap == 2

-----------------------------------------------------------------------------
(* Text helpers: str.strip, str.lower, `a or b` *)

RECURSIVE Rep(_, _)
Rep(c, n) == IF n <= 0 THEN <<>> ELSE <<c>> \o Rep(c, n - 1)

IsSpace(c) == c \in {" ", "\t", "\n", "\r"}

RECURSIVE LStrip(_)
LStrip(s) == IF s # <<>> /\ IsSpace(Head(s)) THEN LStrip(Tail(s)) ELSE s

RECURSIVE RStrip(_)
RStrip(s) ==
    IF s # <<>> /\ IsSpace(s[Len(s)]) THEN RStrip(SubSeq(s, 1, Len(s) - 1)) ELSE s

\* str.strip()
Strip(s) == RStrip(LStrip(s))

LowerChar(c) ==
    CASE c = "A" -> "a" [] c = "B" -> "b" [] c = "C" -> "c"
      [] c = "D" -> "d" [] c = "E" -> "e" [] c = "F" -> "f"
      [] c = "G" -> "g" [] c = "S" -> "s" [] c = "H" -> "h"
      [] OTHER -> c

\* str.lower()
Lower(s) == [i \in 1..Len(s) |-> LowerChar(s[i])]

\* Python's `a or b` on strings: the first that is not empty
OrElse(a, b) == IF a # <<>> THEN a ELSE b

-----------------------------------------------------------------------------
(* Files and digests *)

\* a path with nothing at it
NoFile == [exists |-> FALSE, data |-> <<>>]

File(data) == [exists |-> TRUE, data |-> data]

\* the filter part of the state when no filter runs
IdleFilter ==
    /\ ft_rec = [tlen |-> 0, nmatch |-> 0, alnlen |-> 0, mapq |-> 0]
    /\ ft_args = [id_thr |-> [num |-> 1, den |-> 2],
                  cov_thr |-> [num |-> 1, den |-> 2], min_mapq |-> 0]
    /\ ft_verdict = ""
    /\ ft_pc = "idle"

\* the classification part of the state when no classification runs
IdleClassify ==
    /\ cl_args = [id_thr |-> [num |-> 1, den |-> 2],
                  cov_thr |-> [num |-> 1, den |-> 2], min_mapq |-> 0,
                  sep |-> "|", save_filtered_hits |-> FALSE]
    /\ plan = <<>>
    /\ out_pipe = <<>>
    /\ err_pipe = <<>>
    /\ al_pc = "idle"
    /\ rc = 0
    /\ cl_pc = "idle"
    /\ vote_bins = [q \in {} |-> <<>>]
    /\ total_paf = 0
    /\ kept_hits = 0
    /\ hits_file = [exists |-> FALSE, rows |-> <<>>]
    /\ final_file = [exists |-> FALSE, rows |-> <<>>]
    /\ stderr = <<>>
    /\ cl_err = ""
    /\ consumed = <<>>
    /\ retained = <<>>
    /\ shown = <<>>
    /\ stats = <<>>

\* the parsing part of the state when no line is being parsed
IdleParse ==
    /\ ps_fields = <<>>
    /\ ps_line = <<>>
    /\ ps_rec = [ok |-> FALSE]
    /\ ps_pc = "idle"

\* the state of main when the program is not being invoked
IdleMain ==
    /\ mn_cmd = ""
    /\ mn_pc = "idle"
    /\ mn_exc = [kind |-> "", type |-> ""]
    /\ exit_code = -1
    /\ codes = {}

\* the two-acquirer part of the state when no such acquisitions run
IdleAcquirers ==
    /\ aq = <<>>
    /\ inodes = <<>>
    /\ aq_dest = 0
    /\ aq_tmp = 0

\* the acquisition part of the state when no acquisition runs
IdleDownload ==
    /\ dl_args = [url |-> <<>>, sha256 |-> <<>>, force |-> FALSE, write_config |-> FALSE]
    /\ dl_env = [url |-> <<>>, sha256 |-> <<>>]
    /\ remote = <<>>
    /\ dest0 = NoFile
    /\ tmp0 = NoFile
    /\ dest = NoFile
    /\ tmp = NoFile
    /\ sha = <<>>
    /\ got = <<>>
    /\ dl_pc = "idle"
    /\ dl_err = ""
    /\ netio = 0
    /\ cfg_written = FALSE
    /\ seen = NoFile

\* byte values used in file contents
Byte == {10, 11}

RECURSIVE SeqsUpTo(_, _)
SeqsUpTo(S, n) ==
    IF n = 0 THEN {<<>>}
    ELSE LET shorter == SeqsUpTo(S, n - 1)
         IN  shorter \cup {Append(s, x) : s \in shorter, x \in S}

Contents == SeqsUpTo(Byte, MaxFileLen)

\* the alphabet of _validate_sha256
HexAlphabet ==
    <<"0", "1", "2", "3", "4", "5", "6", "7", "8", "9", "a", "b", "c", "d", "e", "f">>

HexDigits == {HexAlphabet[i] : i \in 1..Len(HexAlphabet)}

\* length of a sha256 hex digest
DigestLen == 64

\* sha256_file: hashlib.sha256 over the whole file, as a lowercase hex string.
\* The hash is modelled as a collision-free fingerprint: the content's bytes
\* as hex digits, padded with "0" to the digest length (bytes are non-zero).
sha256_file(f) ==
    [i \in 1..DigestLen |->
        IF i <= Len(f.data) THEN HexAlphabet[f.data[i] + 1] ELSE "0"]

\* _validate_sha256: strip, lower, then exactly 64 characters of 0-9a-f
ValidateNoLower(s) ==
    LET t == Strip(s)
    IN  [ok |-> Len(t) = DigestLen /\ \A i \in 1..Len(t) : t[i] \in HexDigits,
         value |-> t]

validate_sha256(s) ==
    LET t == Lower(Strip(s))
    IN  [ok |-> Len(t) = DigestLen /\ \A i \in 1..Len(t) : t[i] \in HexDigits,
         value |-> t]

-----------------------------------------------------------------------------
(* Reference resolution: config_dir, cache_dir, read_config_ref,            *)
(* resolve_ref_path.  A path is its sequence of components.                 *)

APP_NAME == "barcode-vote-classifier"
RefName == "barcode_ref.mmi"

\* Path.home()
Home == <<"home">>

\* cache_dir: TMPDIR when preferred and set, else XDG_CACHE_HOME, else ~/.cache
cache_dir(prefer_tmp) ==
    IF prefer_tmp /\ rs_env.TMPDIR # <<>>
    THEN rs_env.TMPDIR \o <<APP_NAME>>
    ELSE IF rs_env.XDG_CACHE_HOME # <<>>
    THEN rs_env.XDG_CACHE_HOME \o <<APP_NAME>>
    ELSE Home \o <<".cache", APP_NAME>>

\* Path.exists()
Exists(p) == p \in DOMAIN rs_fs /\ rs_fs[p].exists

\* Path.stat().st_size
Size(p) == Len(rs_fs[p].data)

\* a missing config file
NoConfig == [exists |-> FALSE, lines |-> <<>>]

\* read_config_ref over the lines from position i on: blank lines and
\* comments are skipped, the first ref_mmi= line decides (an empty value
\* reads as no entry)
RECURSIVE ReadConfigFrom(_, _)
ReadConfigFrom(lines, i) ==
    IF i > Len(lines) THEN <<>>
    ELSE IF lines[i].kind = "ref_mmi" THEN lines[i].val
    ELSE ReadConfigFrom(lines, i + 1)

\* read_config_ref; <<>> stands for None
read_config_ref ==
    IF ~rs_cfg.exists THEN <<>> ELSE ReadConfigFrom(rs_cfg.lines, 1)

\* a message that leaves out the --ref line
MessageWithoutRef ==
    << [lead |-> "Run", remedy |-> "download",
        names |-> {"barcode-vote download", "--url", "--sha256", "--write-config"}],
       [lead |-> "Or", remedy |-> "set_env", names |-> {"BARCODE_REF_MMI"}] >>

\* the message of lines 243-248 after its headline: one record for each line,
\* with the word the line starts with, what the line tells the user to do, and
\* the command, flags and variables it names
ReferenceNotFoundMessage ==
    << [lead |-> "Run", remedy |-> "download",
        names |-> {"barcode-vote download", "--url", "--sha256", "--write-config"}],
       [lead |-> "Or", remedy |-> "set_env", names |-> {"BARCODE_REF_MMI"}],
       [lead |-> "Or", remedy |-> "pass_ref", names |-> {"--ref"}] >>

Found(p, src) ==
    [ok |-> TRUE, path |-> p, source |-> src, err |-> "", msg |-> <<>>]

NotFound(e) ==
    [ok |-> FALSE, path |-> <<>>, source |-> "", err |-> e,
     msg |-> IF e = "reference_not_found" THEN ReferenceNotFoundMessage ELSE <<>>]

\* resolution that looks at the environment before --ref
ResolveEnvFirst(cli_ref, prefer_tmp_cache) ==
    LET env_ref == rs_env.BARCODE_REF_MMI
        cfg_ref == read_config_ref
        cached == cache_dir(prefer_tmp_cache) \o <<RefName>>
    IN  IF env_ref # <<>>
        THEN IF ~Exists(env_ref) THEN NotFound("env_not_found")
             ELSE Found(env_ref, "env")
        ELSE IF cli_ref # <<>>
        THEN IF ~Exists(cli_ref) THEN NotFound("cli_not_found")
             ELSE Found(cli_ref, "cli")
        ELSE IF cfg_ref # <<>> /\ Exists(cfg_ref) THEN Found(cfg_ref, "config")
        ELSE IF Exists(cached) /\ Size(cached) > 0 THEN Found(cached, "cache")
        ELSE NotFound("reference_not_found")

\* resolution that skips a missing --ref or environment path
ResolveFallThrough(cli_ref, prefer_tmp_cache) ==
    LET env_ref == rs_env.BARCODE_REF_MMI
        cfg_ref == read_config_ref
        cached == cache_dir(prefer_tmp_cache) \o <<RefName>>
    IN  IF cli_ref # <<>> /\ Exists(cli_ref) THEN Found(cli_ref, "cli")
        ELSE IF env_ref # <<>> /\ Exists(env_ref) THEN Found(env_ref, "env")
        ELSE IF cfg_ref # <<>> /\ Exists(cfg_ref) THEN Found(cfg_ref, "config")
        ELSE IF Exists(cached) /\ Size(cached) > 0 THEN Found(cached, "cache")
        ELSE NotFound("reference_not_found")

\* resolve_ref_path, lines 220-249
resolve_ref_path(cli_ref, prefer_tmp_cache) ==
    LET env_ref == rs_env.BARCODE_REF_MMI
        cfg_ref == read_config_ref
        cached == cache_dir(prefer_tmp_cache) \o <<RefName>>
    IN  IF cli_ref # <<>>
        THEN IF ~Exists(cli_ref) THEN NotFound("cli_not_found")
             ELSE Found(cli_ref, "cli")
        ELSE IF env_ref # <<>>
        THEN IF ~Exists(env_ref) THEN NotFound("env_not_found")
             ELSE Found(env_ref, "env")
        ELSE IF cfg_ref # <<>> /\ Exists(cfg_ref) THEN Found(cfg_ref, "config")
        ELSE IF Exists(cached) /\ Size(cached) > 0 THEN Found(cached, "cache")
        ELSE NotFound("reference_not_found")

\* paths the operator may name
RefA == <<"refs", "a.mmi">>
RefB == <<"refs", "b.mmi">>
Scratch == <<"scratch">>
Xdg == <<"xdg">>

TmpCachePath == Scratch \o <<APP_NAME, RefName>>
XdgCachePath == Xdg \o <<APP_NAME, RefName>>
HomeCachePath == Home \o <<".cache", APP_NAME, RefName>>

\* lines of a config file
CfgLine ==
    { [kind |-> "comment", val |-> <<>>],
      [kind |-> "ref_mmi", val |-> <<>>],
      [kind |-> "ref_mmi", val |-> RefA],
      [kind |-> "ref_mmi", val |-> RefB] }

Configs ==
    {NoConfig} \cup {[exists |-> TRUE, lines |-> l] : l \in SeqsUpTo(CfgLine, MaxCfgLines)}

AnyFile == {NoFile, File(<<>>), File(<<10>>)}

\* the resolution part of the state when no resolution runs
IdleResolve ==
    /\ rs_cli = <<>>
    /\ rs_prefer = TRUE
    /\ rs_env = [BARCODE_REF_MMI |-> <<>>, TMPDIR |-> <<>>, XDG_CACHE_HOME |-> <<>>]
    /\ rs_cfg = NoConfig
    /\ rs_fs = <<>>
    /\ rs_pc = "idle"
    /\ rs_result = NotFound("")

InitResolve ==
    /\ rs_cli \in {<<>>, RefA, RefB}
    /\ rs_prefer \in BOOLEAN
    /\ rs_env \in [BARCODE_REF_MMI : {<<>>, RefA, RefB},
                   TMPDIR : {<<>>, Scratch},
                   XDG_CACHE_HOME : {<<>>, Xdg}]
    /\ rs_cfg \in Configs
    /\ \E a \in AnyFile, b \in {NoFile, File(<<10>>)}, t \in AnyFile,
          x \in {NoFile, File(<<10>>)}, h \in AnyFile :
          rs_fs = (RefA :> a) @@ (RefB :> b) @@ (TmpCachePath :> t)
                  @@ (XdgCachePath :> x) @@ (HomeCachePath :> h)
    /\ rs_pc = "start"
    /\ rs_result = NotFound("")
    /\ IdleDownload
    /\ IdleFilter
    /\ IdleClassify
    /\ IdleParse
    /\ IdleMain
    /\ IdleAcquirers

\* cmd_show_ref, line 434: one call of resolve_ref_path
Resolve ==
    /\ rs_pc = "start"
    /\ rs_result' = resolve_ref_path(rs_cli, rs_prefer)
    /\ rs_pc' = "done"
    /\ UNCHANGED <<rs_cli, rs_prefer, rs_env, rs_cfg, rs_fs>>
    /\ UNCHANGED <<dlVars, ftVars, clVars, psVars, mnVars, aqVars>>

NextResolve == Resolve

SpecResolve == InitResolve /\ [][NextResolve]_vars

(* Properties of the resolution *)

CliGiven == rs_cli # <<>>

EnvGiven == rs_env.BARCODE_REF_MMI # <<>>

ConfigUsable == read_config_ref # <<>> /\ Exists(read_config_ref)

ConfigStale == read_config_ref # <<>> /\ ~Exists(read_config_ref)

\* the well-known cache path: scratch when preferred and configured, else
\* the user cache directory
CachePath ==
    IF rs_prefer /\ rs_env.TMPDIR = Scratch THEN TmpCachePath
    ELSE IF rs_env.XDG_CACHE_HOME = Xdg THEN XdgCachePath
    ELSE HomeCachePath

CacheUsable == rs_fs[CachePath].exists /\ rs_fs[CachePath].data # <<>>

ResolvedTo(src) == rs_result.ok /\ rs_result.source = src

\* C4: resolve_ref_path returns the first matching source in the order
\* explicit override, environment, config entry, cache, with its tag and its
\* path; a lower source is returned only when every higher one is not given
\* (for config: not present or not existing), the cache only when the cache
\* file exists with non-zero size.
C4_Precedence ==
    rs_pc = "done" =>
        /\ rs_result.ok => rs_result.source \in {"cli", "env", "config", "cache"}
        /\ ResolvedTo("cli") <=> (CliGiven /\ Exists(rs_cli))
        /\ ResolvedTo("cli") => rs_result.path = rs_cli
        /\ ResolvedTo("env") <=>
              (~CliGiven /\ EnvGiven /\ Exists(rs_env.BARCODE_REF_MMI))
        /\ ResolvedTo("env") => rs_result.path = rs_env.BARCODE_REF_MMI
        /\ ResolvedTo("config") <=> (~CliGiven /\ ~EnvGiven /\ ConfigUsable)
        /\ ResolvedTo("config") => rs_result.path = read_config_ref
        /\ ResolvedTo("cache") <=>
              (~CliGiven /\ ~EnvGiven /\ ~ConfigUsable /\ CacheUsable)
        /\ ResolvedTo("cache") => rs_result.path = CachePath

\* C4 witness: the cache is returned, from the user cache directory because
\* scratch is not preferred, although the scratch copy exists.
C4_Witness ==
    /\ rs_pc = "done"
    /\ ResolvedTo("cache")
    /\ rs_result.path = XdgCachePath
    /\ ~rs_prefer
    /\ rs_env.TMPDIR = Scratch
    /\ rs_fs[TmpCachePath] = File(<<10>>)
    /\ rs_cfg.exists

\* C5: an explicit override or an environment path that is given but missing
\* fails with a not-found error and never falls through, however valid the
\* config entry or the cache; a config entry whose path does not exist is
\* skipped and resolution continues with the cache.
C5_MissingIsFatal ==
    rs_pc = "done" =>
        /\ (CliGiven /\ ~Exists(rs_cli)) =>
              (~rs_result.ok /\ rs_result.err = "cli_not_found")
        /\ (~CliGiven /\ EnvGiven /\ ~Exists(rs_env.BARCODE_REF_MMI)) =>
              (~rs_result.ok /\ rs_result.err = "env_not_found")
        /\ (~CliGiven /\ ~EnvGiven /\ ConfigStale) =>
              IF CacheUsable
              THEN ResolvedTo("cache")
              ELSE ~rs_result.ok /\ rs_result.err = "reference_not_found"

\* C5 witness: the override is missing while environment, config and cache
\* all name existing files, and resolution has failed.
C5_Witness ==
    /\ rs_pc = "done"
    /\ CliGiven
    /\ ~Exists(rs_cli)
    /\ EnvGiven
    /\ Exists(rs_env.BARCODE_REF_MMI)
    /\ ConfigUsable
    /\ CacheUsable
    /\ ~rs_result.ok

\* no source is there: no explicit override, no environment path, no usable
\* config entry, no non-empty cache file
NoSource == ~CliGiven /\ ~EnvGiven /\ ~ConfigUsable /\ ~CacheUsable

\* what the lines of the message tell the user to do
Remedies == {rs_result.msg[i].remedy : i \in 1..Len(rs_result.msg)}

-----------------------------------------------------------------------------
(* Inputs of an acquisition *)

Url == <<"u">>

\* the content the operator expects, and its digest
GoodContent == <<10, 11>>
GoodSha == sha256_file(File(GoodContent))
GoodShaUpper == <<"A", "B">> \o Rep("0", DigestLen - 2)
OtherSha == sha256_file(File(<<11>>))
Sha256Prefix == <<"s", "h", "a", "2", "5", "6", ":">>

\* values of --sha256
ShaArgs ==
    { <<>>,
      GoodSha,
      GoodShaUpper,
      <<" ">> \o GoodShaUpper \o <<"\n">>,
      OtherSha,
      Sha256Prefix \o GoodSha,
      SubSeq(GoodSha, 1, DigestLen - 1),
      GoodSha \o <<"0">>,
      <<"g">> \o Rep("0", DigestLen - 1),
      <<"a", " ">> \o Rep("0", DigestLen - 2),
      <<" ", " ">> }

\* DEFAULT_REF_URL, DEFAULT_REF_SHA256
DEFAULT_REF_URL == <<>>
DEFAULT_REF_SHA256 == <<>>

\* cmd_download: url = args.url or environ[ENV_URL] or DEFAULT_REF_URL
EffectiveUrl == OrElse(dl_args.url, OrElse(dl_env.url, DEFAULT_REF_URL))

\* cmd_download: sha = args.sha256 or environ[ENV_SHA256] or DEFAULT_REF_SHA256
EffectiveSha == OrElse(dl_args.sha256, OrElse(dl_env.sha256, DEFAULT_REF_SHA256))

InitDownload ==
    /\ dl_args \in [url : {<<>>, Url}, sha256 : ShaArgs,
                    force : BOOLEAN, write_config : BOOLEAN]
    /\ dl_env \in [url : {<<>>, Url}, sha256 : {<<>>, GoodSha}]
    /\ remote \in Contents
    /\ dest0 \in {NoFile} \cup {File(c) : c \in Contents}
    /\ tmp0 \in {NoFile, File(<<11>>)}
    /\ dest = dest0
    /\ tmp = tmp0
    /\ sha = <<>>
    /\ got = <<>>
    /\ dl_pc = "start"
    /\ dl_err = ""
    /\ netio = 0
    /\ cfg_written = FALSE
    /\ seen = dest0
    /\ IdleResolve
    /\ IdleFilter
    /\ IdleClassify
    /\ IdleParse
    /\ IdleMain
    /\ IdleAcquirers

DlTerminal == {"done", "failed", "crashed"}

DlFail(e) == dl_pc' = "failed" /\ dl_err' = e

-----------------------------------------------------------------------------
(* cmd_download and download_file, step by step *)

\* cmd_download, lines 399-411: the URL, the digest and its validation
CmdDownloadArgs ==
    /\ dl_pc = "start"
    /\ IF EffectiveUrl = <<>>
       THEN DlFail("no_url") /\ sha' = sha
       ELSE IF EffectiveSha = <<>>
       THEN DlFail("sha256_required") /\ sha' = sha
       ELSE LET v == validate_sha256(EffectiveSha)
            IN  IF v.ok
                THEN dl_pc' = "check" /\ sha' = v.value /\ dl_err' = dl_err
                ELSE DlFail("invalid_sha256") /\ sha' = sha
    /\ UNCHANGED <<dl_args, dl_env, remote, dest, tmp, dest0, tmp0, got,
                   netio, cfg_written, seen>>
    /\ UNCHANGED <<rsVars, ftVars, clVars, psVars, mnVars, aqVars>>

\* cmd_download, lines 417-424 without the short-circuit: always downloads
CheckExistingAlwaysDownload ==
    /\ dl_pc = "check"
    /\ dl_pc' = "open"
    /\ UNCHANGED <<dl_args, dl_env, remote, dest, tmp, dest0, tmp0, sha, got,
                   dl_err, netio, cfg_written, seen>>
    /\ UNCHANGED <<rsVars, ftVars, clVars, psVars, mnVars, aqVars>>

\* cmd_download, lines 413-424: an existing, non-empty destination whose
\* digest matches ends the call (writing the config when asked to)
CmdDownloadCheckExisting ==
    /\ dl_pc = "check"
    /\ IF dest.exists /\ Len(dest.data) > 0 /\ ~dl_args.force
          /\ Lower(sha256_file(dest)) = sha
       THEN dl_pc' = "done"
            /\ cfg_written' = (cfg_written \/ dl_args.write_config)
       ELSE dl_pc' = "open" /\ cfg_written' = cfg_written
    /\ UNCHANGED <<dl_args, dl_env, remote, dest, tmp, dest0, tmp0, sha, got,
                   dl_err, netio, seen>>
    /\ UNCHANGED <<rsVars, ftVars, clVars, psVars, mnVars, aqVars>>

\* a download written in place, straight onto the destination path
OpenInPlace ==
    /\ dl_pc = "open"
    /\ netio' = netio + 1
    /\ dest' = File(<<>>)
    /\ tmp' = File(<<>>)
    /\ dl_pc' = "transfer"
    /\ UNCHANGED <<dl_args, dl_env, remote, dest0, tmp0, sha, got,
                   dl_err, cfg_written, seen>>
    /\ UNCHANGED <<rsVars, ftVars, clVars, psVars, mnVars, aqVars>>

\* download_file, lines 195-201: urlretrieve opens the URL and creates (or
\* truncates) the temporary sibling file
DownloadFileOpen ==
    /\ dl_pc = "open"
    /\ netio' = netio + 1
    /\ tmp' = File(<<>>)
    /\ dl_pc' = "transfer"
    /\ UNCHANGED <<dl_args, dl_env, remote, dest, dest0, tmp0, sha, got,
                   dl_err, cfg_written, seen>>
    /\ UNCHANGED <<rsVars, ftVars, clVars, psVars, mnVars, aqVars>>

\* urlretrieve, line 201: the request fails before the temporary file exists
DownloadFileOpenFails ==
    /\ dl_pc = "open"
    /\ netio' = netio + 1
    /\ DlFail("network")
    /\ UNCHANGED <<dl_args, dl_env, remote, dest, tmp, dest0, tmp0, sha, got,
                   cfg_written, seen>>
    /\ UNCHANGED <<rsVars, ftVars, clVars, psVars, mnVars, aqVars>>

\* urlretrieve, line 201: one more block of the response is written
DownloadFileChunk ==
    /\ dl_pc = "transfer"
    /\ Len(tmp.data) < Len(remote)
    /\ tmp' = File(Append(tmp.data, remote[Len(tmp.data) + 1]))
    /\ UNCHANGED <<dl_args, dl_env, remote, dest, dest0, tmp0, sha, got,
                   dl_pc, dl_err, netio, cfg_written, seen>>
    /\ UNCHANGED <<rsVars, ftVars, clVars, psVars, mnVars, aqVars>>

\* urlretrieve, line 201: the connection breaks, the partial file stays
DownloadFileTransferFails ==
    /\ dl_pc = "transfer"
    /\ Len(tmp.data) < Len(remote)
    /\ DlFail("network")
    /\ UNCHANGED <<dl_args, dl_env, remote, dest, tmp, dest0, tmp0, sha, got,
                   netio, cfg_written, seen>>
    /\ UNCHANGED <<rsVars, ftVars, clVars, psVars, mnVars, aqVars>>

\* download_file, lines 203-204: hash the temporary file and compare
DownloadFileVerify ==
    /\ dl_pc = "transfer"
    /\ Len(tmp.data) = Len(remote)
    /\ got' = sha256_file(tmp)
    /\ dl_pc' = IF Lower(got') # Lower(sha) THEN "unlink" ELSE "replace"
    /\ UNCHANGED <<dl_args, dl_env, remote, dest, tmp, dest0, tmp0, sha,
                   dl_err, netio, cfg_written, seen>>
    /\ UNCHANGED <<rsVars, ftVars, clVars, psVars, mnVars, aqVars>>

\* a mismatch that raises without removing the temporary file
UnlinkForgotten ==
    /\ dl_pc = "unlink"
    /\ DlFail("sha256_mismatch")
    /\ UNCHANGED <<dl_args, dl_env, remote, dest, tmp, dest0, tmp0, sha, got,
                   netio, cfg_written, seen>>
    /\ UNCHANGED <<rsVars, ftVars, clVars, psVars, mnVars, aqVars>>

\* download_file, lines 205-206: delete the temporary file and raise
DownloadFileUnlink ==
    /\ dl_pc = "unlink"
    /\ tmp' = NoFile
    /\ DlFail("sha256_mismatch")
    /\ UNCHANGED <<dl_args, dl_env, remote, dest, dest0, tmp0, sha, got,
                   netio, cfg_written, seen>>
    /\ UNCHANGED <<rsVars, ftVars, clVars, psVars, mnVars, aqVars>>

\* download_file, line 208: rename the temporary file onto the destination
DownloadFileReplace ==
    /\ dl_pc = "replace"
    /\ dest' = tmp
    /\ tmp' = NoFile
    /\ dl_pc' = "installed"
    /\ UNCHANGED <<dl_args, dl_env, remote, dest0, tmp0, sha, got,
                   dl_err, netio, cfg_written, seen>>
    /\ UNCHANGED <<rsVars, ftVars, clVars, psVars, mnVars, aqVars>>

\* cmd_download, lines 427-430
CmdDownloadFinish ==
    /\ dl_pc = "installed"
    /\ cfg_written' = (cfg_written \/ dl_args.write_config)
    /\ dl_pc' = "done"
    /\ UNCHANGED <<dl_args, dl_env, remote, dest, tmp, dest0, tmp0, sha, got,
                   dl_err, netio, seen>>
    /\ UNCHANGED <<rsVars, ftVars, clVars, psVars, mnVars, aqVars>>

\* the acquiring process is killed (or the machine stops) between two steps
DlCrash ==
    /\ dl_pc \notin DlTerminal
    /\ dl_pc' = "crashed"
    /\ UNCHANGED <<dl_args, dl_env, remote, dest, tmp, dest0, tmp0, sha, got,
                   dl_err, netio, cfg_written, seen>>
    /\ UNCHANGED <<rsVars, ftVars, clVars, psVars, mnVars, aqVars>>

\* any other process opens the destination path and reads it
ReadDest ==
    /\ seen # dest
    /\ seen' = dest
    /\ UNCHANGED <<dl_args, dl_env, remote, dest, tmp, dest0, tmp0, sha, got,
                   dl_pc, dl_err, netio, cfg_written>>
    /\ UNCHANGED <<rsVars, ftVars, clVars, psVars, mnVars, aqVars>>

NextDownload ==
    \/ CmdDownloadArgs
    \/ CmdDownloadCheckExisting
    \/ DownloadFileOpen
    \/ DownloadFileOpenFails
    \/ DownloadFileChunk
    \/ DownloadFileTransferFails
    \/ DownloadFileVerify
    \/ DownloadFileUnlink
    \/ DownloadFileReplace
    \/ CmdDownloadFinish
    \/ DlCrash
    \/ ReadDest

SpecDownload == InitDownload /\ [][NextDownload]_vars

-----------------------------------------------------------------------------
(* Properties of the acquisition *)

HexAnyCase == HexDigits \cup {"A", "B", "C", "D", "E", "F"}

\* s is 64 hexadecimal characters of either case, between optional whitespace
PaddedHex64(s) ==
    \E i \in 0..Len(s) :
        /\ i + DigestLen <= Len(s)
        /\ \A k \in 1..Len(s) :
              IF k <= i \/ k > i + DigestLen
              THEN IsSpace(s[k])
              ELSE s[k] \in HexAnyCase

HasSha256Prefix(s) ==
    /\ Len(s) >= Len(Sha256Prefix)
    /\ SubSeq(s, 1, Len(Sha256Prefix)) = Sha256Prefix

WithoutSha256Prefix(s) ==
    IF HasSha256Prefix(s) THEN SubSeq(s, Len(Sha256Prefix) + 1, Len(s)) ELSE s

\* the digest the caller expects, in canonical form
ExpectedDigest == Lower(Strip(EffectiveSha))

\* f is the complete download and carries the expected digest
Verified(f) ==
    /\ f.exists
    /\ f.data = remote
    /\ sha256_file(f) = ExpectedDigest

DigestRejected == dl_err \in {"invalid_sha256", "sha256_required"}

\* the argument checks of cmd_download have run, on a call that names a URL
DigestExamined == EffectiveUrl # <<>> /\ (sha # <<>> \/ dl_err # "")

C1_DestIntact ==
    /\ dest = dest0 \/ Verified(dest)
    /\ seen = dest0 \/ Verified(seen)

C1_OnlyRename ==
    dest' # dest =>
        /\ dl_pc = "replace"
        /\ dl_pc' = "installed"
        /\ dest' = tmp
        /\ Verified(tmp)

\* C1: during and after an acquisition, a crash at any step included, the
\* destination (and what any reader observed there) is either what it was
\* before the call or the complete download carrying the expected digest, and
\* the only step that changes the destination is the rename of the verified
\* temporary file.
C1_AtomicPublish == [](C1_DestIntact) /\ [][C1_OnlyRename]_vars

\* C1 witness: a stale destination was replaced by the verified download and
\* a reader has observed the new content.
C1_Witness ==
    /\ dest0.exists
    /\ dest # dest0
    /\ Verified(dest)
    /\ seen = dest
    /\ dl_pc = "crashed"

C2_Mismatch ==
    /\ EffectiveUrl # <<>>
    /\ PaddedHex64(EffectiveSha)
    /\ got # <<>>
    /\ Lower(got) # ExpectedDigest

\* C2: when the digest of the downloaded bytes differs from the expected
\* digest (compared case-insensitively) the acquisition ends with the
\* checksum-mismatch error, the temporary file is gone and the destination is
\* exactly what it was before the call.
C2_MismatchLeavesDest ==
    C2_Mismatch =>
        /\ dest = dest0
        /\ dl_pc \in {"unlink", "failed", "crashed"}
        /\ dl_pc = "failed" => (dl_err = "sha256_mismatch" /\ tmp = NoFile)

\* C2 witness: --force over an existing file that itself fails the digest
\* check, the download is corrupt, the call has failed.
C2_Witness ==
    /\ C2_Mismatch
    /\ dl_pc = "failed"
    /\ dl_args.force
    /\ dest0.exists
    /\ sha256_file(dest0) # ExpectedDigest
    /\ tmp0.exists

C9_Cached ==
    /\ ~dl_args.force
    /\ EffectiveUrl # <<>>
    /\ PaddedHex64(EffectiveSha)
    /\ dest0.exists
    /\ Len(dest0.data) > 0
    /\ sha256_file(dest0) = ExpectedDigest

\* C9: without force, with a destination that exists, is non-empty and
\* carries the expected digest, the call ends without error, issues no
\* network request and leaves the destination (and the temporary path) alone.
C9_Idempotent ==
    C9_Cached =>
        /\ netio = 0
        /\ dest = dest0
        /\ tmp = tmp0
        /\ dl_err = ""
        /\ dl_pc \in {"start", "check", "done", "crashed"}

\* C9 witness: the short-circuited call has returned.
C9_Witness == C9_Cached /\ dl_pc = "done" /\ dl_args.write_config /\ cfg_written

\* C10 as stated: the digest is accepted iff it is 64 hexadecimal characters
\* after stripping whitespace, an optional leading sha256: prefix, and
\* lowercasing; any other value fails before any I/O.
C10_AcceptedWithPrefix ==
    DigestExamined =>
        /\ ~DigestRejected <=> PaddedHex64(WithoutSha256Prefix(Strip(EffectiveSha)))
        /\ DigestRejected => (netio = 0 /\ dest = dest0 /\ tmp = tmp0)

\* C10 (amended): with a URL given, the digest is accepted iff it is exactly
\* 64 hexadecimal characters after stripping surrounding whitespace and
\* lowercasing (a sha256: prefix is not stripped and makes it invalid); any
\* other value fails with the invalid-digest error (the digest-required error
\* when it is empty) before any network request and before the destination
\* or the temporary file is touched.
C10_AcceptedIffHex64 ==
    DigestExamined =>
        /\ ~DigestRejected <=> PaddedHex64(EffectiveSha)
        /\ DigestRejected => (netio = 0 /\ dest = dest0 /\ tmp = tmp0)
        /\ dl_err = "sha256_required" <=> EffectiveSha = <<>>
        /\ ~DigestRejected => sha = ExpectedDigest

\* C10 witness: a prefixed digest was rejected before anything was fetched.
C10_Witness ==
    /\ HasSha256Prefix(EffectiveSha)
    /\ dl_err = "invalid_sha256"
    /\ dl_pc = "failed"
    /\ netio = 0

-----------------------------------------------------------------------------
(* Classification: text of the alignment stream *)

\* the field separator of the alignment stream
TAB == "\t"

\* str.split(sep) for a one-character separator: the fields between the
\* separators, empty fields included
RECURSIVE SplitFrom(_, _, _, _)
SplitFrom(s, sep, i, cur) ==
    IF i > Len(s) THEN <<cur>>
    ELSE IF s[i] = sep THEN <<cur>> \o SplitFrom(s, sep, i + 1, <<>>)
    ELSE SplitFrom(s, sep, i + 1, Append(cur, s[i]))

Split(s, sep) == SplitFrom(s, sep, 1, <<>>)

\* the value of a decimal digit, -1 for any other character
DigitVal(c) ==
    IF \E i \in 1..10 : HexAlphabet[i] = c
    THEN (CHOOSE i \in 1..10 : HexAlphabet[i] = c) - 1
    ELSE -1

RECURSIVE DigitsValue(_, _)
DigitsValue(s, acc) ==
    IF s = <<>> THEN acc ELSE DigitsValue(Tail(s), 10 * acc + DigitVal(Head(s)))

\* int(text): surrounding whitespace, an optional sign, decimal digits;
\* anything else is a ValueError (ok = FALSE)
ParseInt(text) ==
    LET t == Strip(text)
        signed == t # <<>> /\ Head(t) \in {"-", "+"}
        digits == IF signed THEN Tail(t) ELSE t
        ok == digits # <<>> /\ \A i \in 1..Len(digits) : DigitVal(digits[i]) >= 0
    IN  IF ~ok THEN [ok |-> FALSE, n |-> 0]
        ELSE [ok |-> TRUE,
              n |-> IF signed /\ Head(t) = "-"
                    THEN 0 - DigitsValue(digits, 0)
                    ELSE DigitsValue(digits, 0)]

RECURSIVE NatText(_)
NatText(n) ==
    IF n < 10 THEN <<HexAlphabet[n + 1]>>
    ELSE Append(NatText(n \div 10), HexAlphabet[(n % 10) + 1])

\* str(n) of an integer
IntText(n) == IF n < 0 THEN <<"-">> \o NatText(0 - n) ELSE NatText(n)

\* code points of the characters used in identifiers
Ord(c) ==
    IF DigitVal(c) >= 0 THEN 48 + DigitVal(c)
    ELSE CASE c = "A" -> 65 [] c = "B" -> 66 [] c = "N" -> 78
           [] c = "o" -> 111 [] c = "r" -> 114 [] c = "|" -> 124
           [] OTHER -> 127

\* Python's order on strings: by code point, a proper prefix first
RECURSIVE StrLess(_, _)
StrLess(a, b) ==
    IF b = <<>> THEN FALSE
    ELSE IF a = <<>> THEN TRUE
    ELSE IF Ord(Head(a)) # Ord(Head(b)) THEN Ord(Head(a)) < Ord(Head(b))
    ELSE StrLess(Tail(a), Tail(b))

\* sorted(S) for a set of strings
RECURSIVE Sorted(_)
Sorted(S) ==
    IF S = {} THEN <<>>
    ELSE LET least == CHOOSE x \in S : \A y \in S \ {x} : StrLess(x, y)
         IN  <<least>> \o Sorted(S \ {least})

\* fewest fields of a well-formed alignment line
MinFields == 12

\* a parser that does not convert the query length
ParseWithoutQlen(line) ==
    LET parts == Split(line, TAB)
    IN  IF Len(parts) < MinFields THEN [ok |-> FALSE]
        ELSE LET tlen == ParseInt(parts[7])
                 nmatch == ParseInt(parts[10])
                 alnlen == ParseInt(parts[11])
                 mapq == ParseInt(parts[12])
             IN  IF tlen.ok /\ nmatch.ok /\ alnlen.ok /\ mapq.ok
                 THEN [ok |-> TRUE, qname |-> parts[1], tname |-> parts[6],
                       qlen |-> 0, tlen |-> tlen.n, nmatch |-> nmatch.n,
                       alnlen |-> alnlen.n, mapq |-> mapq.n]
                 ELSE [ok |-> FALSE]

\* parse_paf_line, lines 272-285: None (ok = FALSE) for fewer than 12 fields
\* or when one of the five int() conversions fails
parse_paf_line(line) ==
    LET parts == Split(line, TAB)
    IN  IF Len(parts) < MinFields THEN [ok |-> FALSE]
        ELSE LET qlen == ParseInt(parts[2])
                 tlen == ParseInt(parts[7])
                 nmatch == ParseInt(parts[10])
                 alnlen == ParseInt(parts[11])
                 mapq == ParseInt(parts[12])
             IN  IF qlen.ok /\ tlen.ok /\ nmatch.ok /\ alnlen.ok /\ mapq.ok
                 THEN [ok |-> TRUE, qname |-> parts[1], tname |-> parts[6],
                       qlen |-> qlen.n, tlen |-> tlen.n, nmatch |-> nmatch.n,
                       alnlen |-> alnlen.n, mapq |-> mapq.n]
                 ELSE [ok |-> FALSE]

Unclassified == <<"u", "n", "c", "l", "a", "s", "s", "i", "f", "i", "e", "d">>

\* category_from_target for a one-character separator
category_from_target(tname, sep) ==
    IF \E i \in 1..Len(tname) : tname[i] = sep
    THEN Split(tname, sep)[1]
    ELSE Unclassified

-----------------------------------------------------------------------------
(* Classification: filter, vote bins, final rows *)

\* int / int of Python 3 as an exact fraction with a positive denominator;
\* err stands for ZeroDivisionError.  Thresholds are fractions too: for the
\* integers and decimal thresholds of the model, comparing the rounded
\* doubles and comparing the exact fractions give the same answer.
TrueDiv(a, b) ==
    IF b = 0 THEN [err |-> TRUE, num |-> 0, den |-> 1]
    ELSE IF b > 0 THEN [err |-> FALSE, num |-> a, den |-> b]
    ELSE [err |-> FALSE, num |-> 0 - a, den |-> 0 - b]

\* x > y on fractions
RatGt(x, y) == x.num * y.den > y.num * x.den

\* the filter with >= in place of >
HitFilterNonStrict(rec, a) ==
    IF rec.alnlen <= 0 \/ rec.tlen <= 0 THEN "skip"
    ELSE IF rec.mapq < a.min_mapq THEN "skip"
    ELSE LET identity == TrueDiv(rec.nmatch, rec.alnlen)
             coverage == TrueDiv(rec.alnlen, rec.tlen)
         IN  IF identity.err \/ coverage.err THEN "raise"
             ELSE IF ~RatGt(a.id_thr, identity) /\ ~RatGt(a.cov_thr, coverage)
             THEN "keep"
             ELSE "skip"

\* cmd_classify, lines 345-353: "keep" when the hit counts as evidence,
\* "skip" when the loop continues, "raise" for a ZeroDivisionError
HitFilter(rec, a) ==
    IF rec.alnlen <= 0 \/ rec.tlen <= 0 THEN "skip"
    ELSE IF rec.mapq < a.min_mapq THEN "skip"
    ELSE LET identity == TrueDiv(rec.nmatch, rec.alnlen)
             coverage == TrueDiv(rec.alnlen, rec.tlen)
         IN  IF identity.err \/ coverage.err THEN "raise"
             ELSE IF RatGt(identity, a.id_thr) /\ RatGt(coverage, a.cov_thr)
             THEN "keep"
             ELSE "skip"

\* vote_bins before the first hit
NoBins == [q \in {} |-> <<>>]

\* a vote that replaces the category's weight instead of adding to it
AddVoteAssign(bins, qname, cat, weight) ==
    LET cats == IF qname \in DOMAIN bins THEN bins[qname] ELSE <<>>
        known == \E i \in 1..Len(cats) : cats[i].cat = cat
        updated ==
            IF known
            THEN [i \in 1..Len(cats) |->
                    IF cats[i].cat = cat
                    THEN [cat |-> cat, w |-> weight]
                    ELSE cats[i]]
            ELSE Append(cats, [cat |-> cat, w |-> weight])
    IN  [q \in DOMAIN bins \cup {qname} |-> IF q = qname THEN updated ELSE bins[q]]

\* cmd_classify, line 356: vote_bins[qname][cat] += nmatch.  The categories
\* of a query are kept in the order the dict received them.
AddVote(bins, qname, cat, weight) ==
    LET cats == IF qname \in DOMAIN bins THEN bins[qname] ELSE <<>>
        known == \E i \in 1..Len(cats) : cats[i].cat = cat
        updated ==
            IF known
            THEN [i \in 1..Len(cats) |->
                    IF cats[i].cat = cat
                    THEN [cat |-> cat, w |-> cats[i].w + weight]
                    ELSE cats[i]]
            ELSE Append(cats, [cat |-> cat, w |-> weight])
    IN  [q \in DOMAIN bins \cup {qname} |-> IF q = qname THEN updated ELSE bins[q]]

\* the pick of the first category in place of the heaviest
WinnerFirst(cats) == cats[1]

\* the pick of the last category among those of the greatest weight
WinnerLast(cats) ==
    LET best == CHOOSE i \in 1..Len(cats) :
                    /\ \A j \in 1..Len(cats) : cats[j].w <= cats[i].w
                    /\ \A j \in (i + 1)..Len(cats) : cats[j].w < cats[i].w
    IN  cats[best]

\* cmd_classify, lines 376-377: max(cats, key=cats.get) and its weight: the
\* first category, in dict order, among those of the greatest weight
Winner(cats) ==
    LET best == CHOOSE i \in 1..Len(cats) :
                    /\ \A j \in 1..Len(cats) : cats[j].w <= cats[i].w
                    /\ \A j \in 1..(i - 1) : cats[j].w < cats[i].w
    IN  cats[best]

\* cmd_classify, lines 374-378: the rows of the final results, by sorted id
FinalRows(bins) ==
    LET ids == Sorted(DOMAIN bins)
    IN  [i \in 1..Len(ids) |->
            [read_id |-> ids[i],
             final_category |-> Winner(bins[ids[i]]).cat,
             vote_score |-> Winner(bins[ids[i]]).w]]

\* a loop body that counts blank lines as lines seen
ProcessLineCountsBlank(st, raw, a) ==
    LET line == Strip(raw)
        rec == parse_paf_line(line)
    IN  IF line = <<>> \/ ~rec.ok THEN [st EXCEPT !.total_paf = @ + 1]
        ELSE LET verdict == HitFilter(rec, a)
                 cat == category_from_target(rec.tname, a.sep)
             IN  IF verdict = "raise"
                 THEN [st EXCEPT !.total_paf = @ + 1, !.crashed = TRUE]
                 ELSE IF verdict = "skip"
                 THEN [st EXCEPT !.total_paf = @ + 1]
                 ELSE [st EXCEPT
                         !.total_paf = @ + 1,
                         !.kept_hits = @ + 1,
                         !.vote_bins = AddVote(@, rec.qname, cat, rec.nmatch),
                         !.hits = IF a.save_filtered_hits
                                  THEN Append(@, [read_id |-> rec.qname,
                                                  target_id |-> rec.tname,
                                                  score |-> rec.nmatch])
                                  ELSE @]

\* cmd_classify, lines 336-358: the loop body on one line of the stream.
\* st holds vote_bins, total_paf, kept_hits and the rows written to the
\* filtered-hits file; crashed is set when the body raises.
ProcessLine(st, raw, a) ==
    LET line == Strip(raw)
        rec == parse_paf_line(line)
    IN  IF line = <<>> THEN st
        ELSE IF ~rec.ok THEN [st EXCEPT !.total_paf = @ + 1]
        ELSE LET verdict == HitFilter(rec, a)
                 cat == category_from_target(rec.tname, a.sep)
             IN  IF verdict = "raise"
                 THEN [st EXCEPT !.total_paf = @ + 1, !.crashed = TRUE]
                 ELSE IF verdict = "skip"
                 THEN [st EXCEPT !.total_paf = @ + 1]
                 ELSE [st EXCEPT
                         !.total_paf = @ + 1,
                         !.kept_hits = @ + 1,
                         !.vote_bins = AddVote(@, rec.qname, cat, rec.nmatch),
                         !.hits = IF a.save_filtered_hits
                                  THEN Append(@, [read_id |-> rec.qname,
                                                  target_id |-> rec.tname,
                                                  score |-> rec.nmatch])
                                  ELSE @]

\* the loop state at line 331
FreshRun == [vote_bins |-> NoBins, total_paf |-> 0, kept_hits |-> 0,
             hits |-> <<>>, crashed |-> FALSE]

\* the loop of lines 335-358 over a whole stream
RECURSIVE ProcessAll(_, _, _)
ProcessAll(st, lines, a) ==
    IF lines = <<>> THEN st
    ELSE ProcessAll(ProcessLine(st, Head(lines), a), Tail(lines), a)

-----------------------------------------------------------------------------
(* The hit filter on one record *)

Half == [num |-> 1, den |-> 2]

Thresholds ==
    { [num |-> 0, den |-> 1], Half, [num |-> 3, den |-> 4],
      [num |-> 1, den |-> 1], [num |-> 0 - 1, den |-> 2] }

InitFilter ==
    /\ ft_rec \in [tlen : (0 - 1)..MaxVal, nmatch : (0 - 1)..MaxVal,
                   alnlen : (0 - 1)..MaxVal, mapq : 0..2]
    /\ ft_args \in [id_thr : Thresholds, cov_thr : {Half, [num |-> 1, den |-> 1]},
                    min_mapq : 0..2]
    /\ ft_verdict = ""
    /\ ft_pc = "start"
    /\ IdleDownload
    /\ IdleResolve
    /\ IdleClassify
    /\ IdleParse
    /\ IdleMain
    /\ IdleAcquirers

\* cmd_classify, lines 344-353 on one parsed record
ApplyFilter ==
    /\ ft_pc = "start"
    /\ ft_verdict' = HitFilter(ft_rec, ft_args)
    /\ ft_pc' = "done"
    /\ UNCHANGED <<ft_rec, ft_args>>
    /\ UNCHANGED <<dlVars, rsVars, clVars, psVars, mnVars, aqVars>>

NextFilter == ApplyFilter

SpecFilter == InitFilter /\ [][NextFilter]_vars

\* C6: a record with alignedBlockLength <= 0 or targetLength <= 0 is
\* rejected without raising; otherwise it is retained iff
\* mappingQuality >= minMapq, matchedBases/alignedBlockLength > idThreshold
\* and alignedBlockLength/targetLength > covThreshold, both strict, so a
\* record exactly at a threshold is excluded.
C6_StrictFilter ==
    ft_pc = "done" =>
        LET r == ft_rec
            a == ft_args
        IN  /\ ft_verdict \in {"keep", "skip"}
            /\ (r.alnlen <= 0 \/ r.tlen <= 0) => ft_verdict = "skip"
            /\ (r.alnlen > 0 /\ r.tlen > 0) =>
                  (ft_verdict = "keep" <=>
                      /\ r.mapq >= a.min_mapq
                      /\ r.nmatch * a.id_thr.den > a.id_thr.num * r.alnlen
                      /\ r.alnlen * a.cov_thr.den > a.cov_thr.num * r.tlen)
            /\ r.nmatch * a.id_thr.den = a.id_thr.num * r.alnlen =>
                  ft_verdict = "skip"
            /\ r.alnlen * a.cov_thr.den = a.cov_thr.num * r.tlen =>
                  ft_verdict = "skip"

\* C6 witness: identity exactly 1/2 at idThreshold 1/2, everything else
\* passing, and the record was rejected.
C6_Witness ==
    /\ ft_pc = "done"
    /\ ft_args.id_thr = Half
    /\ ft_rec.alnlen = 2 * ft_rec.nmatch
    /\ ft_rec.nmatch > 0
    /\ ft_rec.alnlen * ft_args.cov_thr.den > ft_args.cov_thr.num * ft_rec.tlen
    /\ ft_rec.tlen > 0
    /\ ft_rec.mapq >= ft_args.min_mapq
    /\ ft_verdict = "skip"

-----------------------------------------------------------------------------
(* cmd_classify and the aligner *)

RECURSIVE Join(_, _)
Join(fields, sep) ==
    IF Len(fields) = 0 THEN <<>>
    ELSE IF Len(fields) = 1 THEN fields[1]
    ELSE fields[1] \o <<sep>> \o Join(Tail(fields), sep)

\* a well-formed alignment line of twelve fields
PafLine(qname, tname, tlen, nmatch, alnlen, mapq) ==
    Join(<<qname, IntText(150), <<"0">>, IntText(alnlen), <<"+">>,
           tname, IntText(tlen), <<"0">>, IntText(alnlen),
           IntText(nmatch), IntText(alnlen), IntText(mapq)>>, TAB)

R2 == <<"r", "2">>
R10 == <<"r", "1", "0">>
CatA == <<"A">>
CatB == <<"B">>

HitB == PafLine(R2, <<"B", "|", "1">>, 100, 80, 100, 30)
HitA == PafLine(R2, <<"A", "|", "2">>, 100, 80, 100, 30)
HitNoSep == PafLine(R10, <<"N", "o">>, 100, 60, 100, 30)
HitAtThreshold == PafLine(R2, <<"A", "|", "1">>, 100, 50, 100, 30)
ShortLine == <<"r", "2", TAB, "1", "5", "0">>
BlankLine == <<" ">>
ErrLine == <<"[", "M", "]">>

\* what the aligner may write: a line to stdout or a line to stderr
PlanItems ==
    {[ch |-> "out", line |-> l] :
        l \in {HitB, HitA, HitNoSep, HitAtThreshold, ShortLine, BlankLine}}
    \cup {[ch |-> "err", line |-> ErrLine]}

\* the state when cmd_classify enters its streaming loop (line 335): the hits
\* file is open when asked for, the aligner has been started and will write a
\* sequence of the given items
InitRun(items) ==
    /\ cl_args \in [id_thr : {Half, [num |-> 0 - 1, den |-> 1]},
                    cov_thr : {Half}, min_mapq : {0}, sep : {"|"},
                    save_filtered_hits : BOOLEAN]
    /\ plan \in SeqsUpTo(items, MaxStream)
    /\ out_pipe = <<>>
    /\ err_pipe = <<>>
    /\ al_pc = "running"
    /\ rc = 0
    /\ cl_pc = "read_stdout"
    /\ vote_bins = NoBins
    /\ total_paf = 0
    /\ kept_hits = 0
    /\ hits_file = [exists |-> cl_args.save_filtered_hits, rows |-> <<>>]
    /\ final_file = [exists |-> FALSE, rows |-> <<>>]
    /\ stderr = <<>>
    /\ cl_err = ""
    /\ consumed = <<>>
    /\ retained = <<>>
    /\ shown = <<>>
    /\ stats = <<>>
    /\ IdleDownload
    /\ IdleResolve
    /\ IdleFilter
    /\ IdleParse
    /\ IdleMain
    /\ IdleAcquirers

InitClassify == InitRun(PlanItems)

\* the aligner writes its next line; the write blocks while the pipe is full
AlignerWrite ==
    /\ al_pc = "running"
    /\ plan # <<>>
    /\ IF Head(plan).ch = "out"
       THEN /\ Len(out_pipe) < PipeCap
            /\ out_pipe' = Append(out_pipe, Head(plan).line)
            /\ err_pipe' = err_pipe
       ELSE /\ Len(err_pipe) < PipeCap
            /\ err_pipe' = Append(err_pipe, Head(plan).line)
            /\ out_pipe' = out_pipe
    /\ plan' = Tail(plan)
    /\ UNCHANGED <<cl_args, al_pc, rc, cl_pc, vote_bins, total_paf, kept_hits,
                   hits_file, final_file, stderr, cl_err, consumed, retained>>
    /\ UNCHANGED <<shown, stats>>
    /\ UNCHANGED <<dlVars, rsVars, ftVars, psVars, mnVars, aqVars>>

\* the aligner has written everything: it exits, which closes both pipes
AlignerExit ==
    /\ al_pc = "running"
    /\ plan = <<>>
    /\ al_pc' = "exited"
    /\ rc' \in {0, 1}
    /\ UNCHANGED <<cl_args, plan, out_pipe, err_pipe, cl_pc, vote_bins, total_paf,
                   kept_hits, hits_file, final_file, stderr, cl_err, consumed,
                   retained>>
    /\ UNCHANGED <<shown, stats>>
    /\ UNCHANGED <<dlVars, rsVars, ftVars, psVars, mnVars, aqVars>>

\* cmd_classify, lines 335-358: one iteration of `for line in proc.stdout`
ReadStdoutLine ==
    /\ cl_pc = "read_stdout"
    /\ out_pipe # <<>>
    /\ LET raw == Head(out_pipe)
           st == ProcessLine([vote_bins |-> vote_bins, total_paf |-> total_paf,
                              kept_hits |-> kept_hits, hits |-> hits_file.rows,
                              crashed |-> FALSE], raw, cl_args)
           rec == parse_paf_line(Strip(raw))
       IN  /\ vote_bins' = st.vote_bins
           /\ total_paf' = st.total_paf
           /\ kept_hits' = st.kept_hits
           /\ hits_file' = [hits_file EXCEPT !.rows = st.hits]
           /\ cl_pc' = IF st.crashed THEN "failed" ELSE cl_pc
           /\ cl_err' = IF st.crashed THEN "ZeroDivisionError" ELSE cl_err
           /\ retained' =
                 IF st.kept_hits > kept_hits
                 THEN Append(retained,
                             [qname |-> rec.qname,
                              cat |-> category_from_target(rec.tname, cl_args.sep),
                              nmatch |-> rec.nmatch])
                 ELSE retained
           /\ consumed' = Append(consumed, raw)
    /\ out_pipe' = Tail(out_pipe)
    /\ UNCHANGED <<cl_args, plan, err_pipe, al_pc, rc, final_file, stderr>>
    /\ UNCHANGED <<shown, stats>>
    /\ UNCHANGED <<dlVars, rsVars, ftVars, psVars, mnVars, aqVars>>

\* cmd_classify, line 335: the loop ends when stdout is at end of file
StdoutEof ==
    /\ cl_pc = "read_stdout"
    /\ out_pipe = <<>>
    /\ al_pc = "exited"
    /\ cl_pc' = "read_stderr"
    /\ UNCHANGED <<cl_args, plan, out_pipe, err_pipe, al_pc, rc, vote_bins,
                   total_paf, kept_hits, hits_file, final_file, stderr, cl_err,
                   consumed, retained>>
    /\ UNCHANGED <<shown, stats>>
    /\ UNCHANGED <<dlVars, rsVars, ftVars, psVars, mnVars, aqVars>>

\* cmd_classify, line 361: proc.stderr.read() takes what the pipe holds
ReadStderr ==
    /\ cl_pc = "read_stderr"
    /\ err_pipe # <<>>
    /\ stderr' = Append(stderr, Head(err_pipe))
    /\ err_pipe' = Tail(err_pipe)
    /\ UNCHANGED <<cl_args, plan, out_pipe, al_pc, rc, cl_pc, vote_bins, total_paf,
                   kept_hits, hits_file, final_file, cl_err, consumed, retained>>
    /\ UNCHANGED <<shown, stats>>
    /\ UNCHANGED <<dlVars, rsVars, ftVars, psVars, mnVars, aqVars>>

\* cmd_classify, line 361: proc.stderr.read() returns at end of file
StderrEof ==
    /\ cl_pc = "read_stderr"
    /\ err_pipe = <<>>
    /\ al_pc = "exited"
    /\ cl_pc' = "wait"
    /\ UNCHANGED <<cl_args, plan, out_pipe, err_pipe, al_pc, rc, vote_bins,
                   total_paf, kept_hits, hits_file, final_file, stderr, cl_err,
                   consumed, retained>>
    /\ UNCHANGED <<shown, stats>>
    /\ UNCHANGED <<dlVars, rsVars, ftVars, psVars, mnVars, aqVars>>

\* a wait that does not look at the exit code
WaitExitIgnoresCode ==
    /\ cl_pc = "wait"
    /\ al_pc = "exited"
    /\ cl_pc' = "write_results"
    /\ UNCHANGED <<cl_args, plan, out_pipe, err_pipe, al_pc, rc, vote_bins,
                   total_paf, kept_hits, hits_file, final_file, stderr,
                   cl_err, consumed, retained, shown, stats>>
    /\ UNCHANGED <<dlVars, rsVars, ftVars, psVars, mnVars, aqVars>>

\* cmd_classify, lines 362-369: the exit code; a non-zero code prints the
\* captured standard error and raises
WaitExit ==
    /\ cl_pc = "wait"
    /\ al_pc = "exited"
    /\ IF rc # 0
       THEN /\ shown' = stderr
            /\ cl_pc' = "failed"
            /\ cl_err' = "minimap2_failed"
       ELSE /\ shown' = shown
            /\ cl_pc' = "write_results"
            /\ cl_err' = cl_err
    /\ UNCHANGED <<cl_args, plan, out_pipe, err_pipe, al_pc, rc, vote_bins,
                   total_paf, kept_hits, hits_file, final_file, stderr,
                   consumed, retained, stats>>
    /\ UNCHANGED <<dlVars, rsVars, ftVars, psVars, mnVars, aqVars>>

\* `stats[winner] += 1` over the rows written (lines 371, 379): the number of
\* rows each winning category has
Tally(rows) ==
    [c \in {rows[i].final_category : i \in 1..Len(rows)} |->
        Cardinality({i \in 1..Len(rows) : rows[i].final_category = c})]

\* final results written without the tally of line 379
WriteResultsWithoutTally ==
    /\ cl_pc = "write_results"
    /\ final_file' = [exists |-> TRUE, rows |-> FinalRows(vote_bins)]
    /\ cl_pc' = "done"
    /\ UNCHANGED <<cl_args, plan, out_pipe, err_pipe, al_pc, rc, vote_bins,
                   total_paf, kept_hits, hits_file, stderr, cl_err,
                   consumed, retained, shown, stats>>
    /\ UNCHANGED <<dlVars, rsVars, ftVars, psVars, mnVars, aqVars>>

\* cmd_classify, lines 371-379: the final results file
WriteResults ==
    /\ cl_pc = "write_results"
    /\ final_file' = [exists |-> TRUE, rows |-> FinalRows(vote_bins)]
    /\ stats' = Tally(FinalRows(vote_bins))
    /\ cl_pc' = "done"
    /\ UNCHANGED <<cl_args, plan, out_pipe, err_pipe, al_pc, rc, vote_bins,
                   total_paf, kept_hits, hits_file, stderr, cl_err,
                   consumed, retained, shown>>
    /\ UNCHANGED <<dlVars, rsVars, ftVars, psVars, mnVars, aqVars>>

NextClassify ==
    \/ AlignerWrite
    \/ AlignerExit
    \/ ReadStdoutLine
    \/ StdoutEof
    \/ ReadStderr
    \/ StderrEof
    \/ WaitExit
    \/ WriteResults

SpecClassify == InitClassify /\ [][NextClassify]_vars

-----------------------------------------------------------------------------
(* Properties of the classification *)

\* the aligner is blocked writing to a full stderr pipe while cmd_classify
\* is blocked reading an empty stdout pipe
PipeDeadlock ==
    /\ cl_pc = "read_stdout"
    /\ out_pipe = <<>>
    /\ al_pc = "running"
    /\ plan # <<>>
    /\ Head(plan).ch = "err"
    /\ Len(err_pipe) = PipeCap

\* C3: standard error is never left unread while the host is blocked reading
\* standard output: no reachable state has the aligner blocked on a full
\* stderr pipe and the host blocked on stdout.
C3_NoPipeDeadlock == ~PipeDeadlock

\* the query ids with at least one retained hit
RetainedQueries == {retained[i].qname : i \in 1..Len(retained)}

\* the categories the retained hits of q voted for
CategoriesOf(q) ==
    {retained[i].cat : i \in {k \in 1..Len(retained) : retained[k].qname = q}}

\* sum of matchedBases over the retained hits of q in category c
RECURSIVE WeightFrom(_, _, _)
WeightFrom(q, c, i) ==
    IF i > Len(retained) THEN 0
    ELSE (IF retained[i].qname = q /\ retained[i].cat = c
          THEN retained[i].nmatch ELSE 0) + WeightFrom(q, c, i + 1)

WeightOf(q, c) == WeightFrom(q, c, 1)

\* C7: after a successful run the final results hold exactly one row per
\* query id with a retained hit and none for any other id; the row's
\* category has the greatest accumulated weight among the query's
\* categories, the vote score is that weight, and the rows ascend by id.
C7_FinalRows ==
    cl_pc = "done" =>
        LET rows == final_file.rows
        IN  /\ final_file.exists
            /\ {rows[i].read_id : i \in 1..Len(rows)} = RetainedQueries
            /\ \A i \in 1..Len(rows) :
                  /\ rows[i].final_category \in CategoriesOf(rows[i].read_id)
                  /\ rows[i].vote_score =
                        WeightOf(rows[i].read_id, rows[i].final_category)
                  /\ \A c \in CategoriesOf(rows[i].read_id) :
                        WeightOf(rows[i].read_id, c) <= rows[i].vote_score
            /\ \A i \in 1..Len(rows) : \A j \in (i + 1)..Len(rows) :
                  StrLess(rows[i].read_id, rows[j].read_id)

\* C7 witness: two queries classified, r10 before r2, r2 with votes for two
\* categories of different weight.
C7_Witness ==
    /\ cl_pc = "done"
    /\ Len(final_file.rows) = 2
    /\ final_file.rows[1].read_id = R10
    /\ final_file.rows[2].read_id = R2
    /\ CategoriesOf(R2) = {CatA, CatB}
    /\ WeightOf(R2, CatA) # WeightOf(R2, CatB)

\* the arrival orders of the lines the run has read
ArrivalOrders ==
    {[i \in 1..Len(consumed) |-> consumed[f[i]]] :
        f \in Permutations(1..Len(consumed))}

\* the final rows of a run over the given lines
RowsOf(lines) == FinalRows(ProcessAll(FreshRun, lines, cl_args).vote_bins)

\* q has a single category of the greatest weight
UniqueBest(q) ==
    \E c \in CategoriesOf(q) :
        \A d \in CategoriesOf(q) \ {c} : WeightOf(q, d) < WeightOf(q, c)

\* C8 as stated: the same hits in any arrival order give the same winning
\* category and the same vote score for every query id.
C8_OrderIndependent ==
    cl_pc = "done" => \A lines \in ArrivalOrders : RowsOf(lines) = final_file.rows

\* C8 (amended): the same hits in any arrival order give the same query
\* ids and the same vote score for every query id, and the same winning
\* category for every query id whose greatest weight is held by one
\* category alone.
C8_ScoresOrderIndependent ==
    cl_pc = "done" =>
        \A lines \in ArrivalOrders :
            LET alt == RowsOf(lines)
                rows == final_file.rows
            IN  /\ Len(alt) = Len(rows)
                /\ \A i \in 1..Len(rows) :
                      /\ alt[i].read_id = rows[i].read_id
                      /\ alt[i].vote_score = rows[i].vote_score
                      /\ UniqueBest(rows[i].read_id) =>
                            alt[i].final_category = rows[i].final_category

\* C8 witness: a finished run with two categories tied at the top, for which
\* another arrival order of the same hits names the other winner.
C8_Witness ==
    /\ cl_pc = "done"
    /\ Len(final_file.rows) = 1
    /\ ~UniqueBest(R2)
    /\ \E lines \in ArrivalOrders :
          RowsOf(lines)[1].final_category # final_file.rows[1].final_category

\* cmd_classify is not blocked: there is a line to read in the pipe it reads,
\* or one of its other steps can be taken
HostCanStep ==
    \/ cl_pc = "read_stdout" /\ out_pipe # <<>>
    \/ ENABLED StdoutEof
    \/ ENABLED ReadStderr
    \/ ENABLED StderrEof
    \/ ENABLED WaitExit

\* C11: once the aligner has exited with a non-zero code the run can only go
\* on to the failure "minimap2 failed": it is never stuck before it, it prints
\* everything the aligner wrote to standard error, and it never writes the
\* final results file, whatever was streamed and retained before.  The final
\* results file exists only after the end of the stream and an exit code 0.
C11_NonZeroExitIsFatal ==
    /\ (al_pc = "exited" /\ rc # 0) =>
            /\ ~final_file.exists
            /\ cl_pc \in {"read_stdout", "read_stderr", "wait", "failed"}
            /\ cl_pc # "failed" => HostCanStep
            /\ cl_pc = "failed" =>
                    /\ cl_err = "minimap2_failed"
                    /\ err_pipe = <<>>
                    /\ shown = stderr
    /\ final_file.exists =>
            /\ al_pc = "exited" /\ rc = 0
            /\ plan = <<>> /\ out_pipe = <<>>

\* a failed run that had retained a hit and whose aligner had complained
C11_Witness ==
    /\ cl_pc = "failed"
    /\ rc # 0
    /\ retained # <<>>
    /\ shown = <<ErrLine>>

-----------------------------------------------------------------------------
(* main: the program is invoked, the subcommand returns or raises, and   *)
(* main turns that into the exit status of the process                   *)

\* the places where a subcommand raises: what went wrong and the class of
\* the exception (require_exe 257; resolve_ref_path 223, 230, 249;
\* cmd_classify 304, 369; cmd_download 401, 407; _validate_sha256 187;
\* urlretrieve 201; download_file 206; cmd_config 444)
Raises ==
    { [cmd |-> "classify", kind |-> "missing_dependency", type |-> "RuntimeError"],
      [cmd |-> "classify", kind |-> "reference_not_found", type |-> "FileNotFoundError"],
      [cmd |-> "classify", kind |-> "query_not_found", type |-> "FileNotFoundError"],
      [cmd |-> "classify", kind |-> "external_process_failure", type |-> "RuntimeError"],
      [cmd |-> "download", kind |-> "no_url", type |-> "RuntimeError"],
      [cmd |-> "download", kind |-> "invalid_sha256", type |-> "RuntimeError"],
      [cmd |-> "download", kind |-> "network", type |-> "URLError"],
      [cmd |-> "download", kind |-> "checksum_mismatch", type |-> "RuntimeError"],
      [cmd |-> "show-ref", kind |-> "reference_not_found", type |-> "FileNotFoundError"],
      [cmd |-> "config", kind |-> "set_ref_not_found", type |-> "FileNotFoundError"] }

Commands == {r.cmd : r \in Raises}

\* args.func(args) returned: there is no exception
NoException == [kind |-> "", type |-> ""]

\* main, lines 536-543: the exit status for what args.func(args) did.  The
\* classes in Raises all derive from Exception; KeyboardInterrupt derives
\* from BaseException only and has its own clause.
ExitStatus(exc) ==
    IF exc = NoException THEN 0
    ELSE IF exc.type = "KeyboardInterrupt" THEN 130
    ELSE 1

InitMain ==
    /\ mn_cmd = ""
    /\ mn_pc = "start"
    /\ mn_exc = [kind |-> "", type |-> ""]
    /\ exit_code = 0 - 1
    /\ codes = {}
    /\ IdleDownload
    /\ IdleResolve
    /\ IdleFilter
    /\ IdleClassify
    /\ IdleParse
    /\ IdleAcquirers

\* the program is started with a subcommand (lines 534-537)
MainStart ==
    /\ mn_pc \in {"start", "exited"}
    /\ mn_cmd' \in Commands
    /\ mn_pc' = "running"
    /\ mn_exc' = NoException
    /\ exit_code' = 0 - 1
    /\ UNCHANGED codes
    /\ UNCHANGED <<dlVars, rsVars, ftVars, clVars, psVars, aqVars>>

\* args.func(args) returns
FuncReturns ==
    /\ mn_pc = "running"
    /\ mn_pc' = "ended"
    /\ UNCHANGED <<mn_cmd, mn_exc, exit_code, codes>>
    /\ UNCHANGED <<dlVars, rsVars, ftVars, clVars, psVars, aqVars>>

\* args.func(args) raises at one of the places of its subcommand
FuncRaises ==
    /\ mn_pc = "running"
    /\ \E r \in Raises :
          /\ r.cmd = mn_cmd
          /\ mn_exc' = [kind |-> r.kind, type |-> r.type]
    /\ mn_pc' = "ended"
    /\ UNCHANGED <<mn_cmd, exit_code, codes>>
    /\ UNCHANGED <<dlVars, rsVars, ftVars, clVars, psVars, aqVars>>

\* the user presses Ctrl-C while args.func(args) runs
FuncInterrupted ==
    /\ mn_pc = "running"
    /\ mn_exc' = [kind |-> "interrupted", type |-> "KeyboardInterrupt"]
    /\ mn_pc' = "ended"
    /\ UNCHANGED <<mn_cmd, exit_code, codes>>
    /\ UNCHANGED <<dlVars, rsVars, ftVars, clVars, psVars, aqVars>>

\* main, lines 538-543: the process exits
MainExit ==
    /\ mn_pc = "ended"
    /\ exit_code' = ExitStatus(mn_exc)
    /\ codes' = codes \cup
                  {[outcome |-> IF mn_exc = NoException THEN "success" ELSE mn_exc.kind,
                    code |-> ExitStatus(mn_exc)]}
    /\ mn_pc' = "exited"
    /\ UNCHANGED <<mn_cmd, mn_exc>>
    /\ UNCHANGED <<dlVars, rsVars, ftVars, clVars, psVars, aqVars>>

NextMain ==
    \/ MainStart
    \/ FuncReturns
    \/ FuncRaises
    \/ FuncInterrupted
    \/ MainExit

SpecMain == InitMain /\ [][NextMain]_vars

-----------------------------------------------------------------------------
(* Properties of the exit status *)

\* the failure kinds whose exit codes have to tell them apart
DistinguishedFailures ==
    {"missing_dependency", "reference_not_found", "checksum_mismatch",
     "external_process_failure"}

\* C12: over the invocations so far, success ended with exit code 0, each of
\* missing dependency, reference-not-found, checksum mismatch and
\* external-process failure ended with a non-zero exit code, and two
\* different ones of these four never ended with the same exit code.
C12_ExitCodesDistinguish ==
    /\ \A r \in codes :
          /\ r.outcome = "success" => r.code = 0
          /\ r.outcome \in DistinguishedFailures => r.code # 0
    /\ \A r1, r2 \in codes :
          (/\ r1.outcome \in DistinguishedFailures
           /\ r2.outcome \in DistinguishedFailures
           /\ r1.outcome # r2.outcome) => r1.code # r2.code

-----------------------------------------------------------------------------
(* parse_paf_line on one line *)

\* most fields of a line
MaxFields == 14

\* what a field of a line can hold: integers as int() reads them, and text
\* that int() rejects
Tokens ==
    { <<"5">>, <<"-", "3">>, <<" ", "7">>, <<"x">>, <<"1", ".", "5">>, <<>> }

\* a line of n fields, all "5" except the fields at p1 and p2
Fields(n, p1, t1, p2, t2) ==
    [i \in 1..n |-> IF i = p2 THEN t2 ELSE IF i = p1 THEN t1 ELSE <<"5">>]

InitParse ==
    /\ \E n \in (MinFields - 2)..MaxFields :
         \E p1 \in 1..n, p2 \in 1..n, t1 \in Tokens, t2 \in Tokens :
            ps_fields = Fields(n, p1, t1, p2, t2)
    /\ ps_line = Join(ps_fields, TAB)
    /\ ps_rec = [ok |-> FALSE]
    /\ ps_pc = "start"
    /\ IdleDownload
    /\ IdleResolve
    /\ IdleFilter
    /\ IdleClassify
    /\ IdleMain
    /\ IdleAcquirers

\* the call parse_paf_line(line)
ParseLine ==
    /\ ps_pc = "start"
    /\ ps_rec' = parse_paf_line(ps_line)
    /\ ps_pc' = "done"
    /\ UNCHANGED <<ps_fields, ps_line>>
    /\ UNCHANGED <<dlVars, rsVars, ftVars, clVars, mnVars, aqVars>>

NextParse == ParseLine

SpecParse == InitParse /\ [][NextParse]_vars

-----------------------------------------------------------------------------
(* Properties of parse_paf_line *)

\* the tokens that are integers, and their values
IntegerTokens == { <<"5">>, <<"-", "3">>, <<" ", "7">> }

TokenValue(t) ==
    CASE t = <<"5">> -> 5
      [] t = <<"-", "3">> -> 0 - 3
      [] t = <<" ", "7">> -> 7

\* the line has at least twelve fields and the fields at these positions are
\* integers
WellFormedAt(positions) ==
    /\ Len(ps_fields) >= 12
    /\ \A i \in positions : ps_fields[i] \in IntegerTokens

\* C13 as stated: parse_paf_line yields a record exactly when the line has at
\* least twelve tab-separated fields and fields 7, 10, 11 and 12 are integers;
\* what fields 2-5, 8, 9 and 13 onwards hold never makes a line malformed.
C13_FourNumericFields ==
    ps_pc = "done" => (ps_rec.ok <=> WellFormedAt({7, 10, 11, 12}))

\* C13, amended: parse_paf_line yields a record exactly when the line has at
\* least twelve tab-separated fields and fields 2, 7, 10, 11 and 12 are
\* integers; the record holds fields 1 and 6 and the values of fields 7, 10,
\* 11 and 12; what fields 3-5, 8, 9 and 13 onwards hold never matters.
C13_FiveNumericFields ==
    ps_pc = "done" =>
        /\ ps_rec.ok <=> WellFormedAt({2, 7, 10, 11, 12})
        /\ ps_rec.ok =>
              /\ ps_rec.qname = ps_fields[1]
              /\ ps_rec.tname = ps_fields[6]
              /\ ps_rec.tlen = TokenValue(ps_fields[7])
              /\ ps_rec.nmatch = TokenValue(ps_fields[10])
              /\ ps_rec.alnlen = TokenValue(ps_fields[11])
              /\ ps_rec.mapq = TokenValue(ps_fields[12])

\* a line that is malformed only because its second field is not an integer
C13_Witness ==
    /\ ps_pc = "done"
    /\ WellFormedAt({7, 10, 11, 12})
    /\ ps_fields[2] = <<"x">>
    /\ ~ps_rec.ok

-----------------------------------------------------------------------------
(* Classification of a stream whose hits can tie and can carry a negative  *)
(* number of matched bases                                                  *)

HitA60 == PafLine(R2, <<"A", "|", "1">>, 100, 60, 100, 30)
HitB120 == PafLine(R2, <<"B", "|", "1">>, 200, 120, 150, 30)
HitNegative == PafLine(R2, <<"A", "|", "2">>, 100, 0 - 20, 100, 30)
HitOtherQuery == PafLine(R10, <<"A", "|", "1">>, 100, 60, 100, 30)

VoteItems ==
    {[ch |-> "out", line |-> l] :
        l \in {HitA60, HitB120, HitNegative, HitOtherQuery}}
    \cup {[ch |-> "err", line |-> ErrLine]}

InitVotes == InitRun(VoteItems)

SpecVotes == InitVotes /\ [][NextClassify]_vars

-----------------------------------------------------------------------------
(* Properties of the vote bins *)

MinOf(S) == CHOOSE x \in S : \A y \in S : x <= y

\* sum of matchedBases over the first k retained hits that are of q and c
RECURSIVE WeightUpTo(_, _, _)
WeightUpTo(q, c, k) ==
    IF k = 0 THEN 0
    ELSE (IF retained[k].qname = q /\ retained[k].cat = c
          THEN retained[k].nmatch ELSE 0) + WeightUpTo(q, c, k - 1)

\* the categories of q that hold its greatest weight
Tied(q) ==
    {c \in CategoriesOf(q) : \A d \in CategoriesOf(q) : WeightOf(q, d) <= WeightOf(q, c)}

\* the retained hit with which c got to the final greatest weight of q
ReachedAt(q, c) ==
    MinOf({k \in 1..Len(retained) :
              \A d \in CategoriesOf(q) : WeightOf(q, d) <= WeightUpTo(q, c, k)})

\* the first retained hit of q for c
FirstSeenAt(q, c) ==
    MinOf({k \in 1..Len(retained) : retained[k].qname = q /\ retained[k].cat = c})

TiedRows ==
    {i \in 1..Len(final_file.rows) : Cardinality(Tied(final_file.rows[i].read_id)) > 1}

\* C16 as stated: when categories of a query tie for the greatest weight at
\* the end of the stream, the row names the one that got to that weight
\* first, in the order the hits arrived.
C16_FirstToReachWins ==
    cl_pc = "done" =>
        \A i \in TiedRows :
            LET q == final_file.rows[i].read_id
                won == final_file.rows[i].final_category
            IN  /\ won \in Tied(q)
                /\ \A d \in Tied(q) : ReachedAt(q, won) <= ReachedAt(q, d)

\* C16, amended: when categories of a query tie for the greatest weight at
\* the end of the stream, the row names the tied category whose first
\* retained hit arrived first.
C16_FirstSeenWins ==
    cl_pc = "done" =>
        \A i \in TiedRows :
            LET q == final_file.rows[i].read_id
                won == final_file.rows[i].final_category
            IN  /\ won \in Tied(q)
                /\ \A d \in Tied(q) : FirstSeenAt(q, won) <= FirstSeenAt(q, d)

\* A was seen first and wins the tie, but B got to the tied weight first
C16_Witness ==
    /\ cl_pc = "done"
    /\ TiedRows = {1}
    /\ final_file.rows[1].final_category = CatA
    /\ ReachedAt(R2, CatB) < ReachedAt(R2, CatA)

\* C17: at every point of a run, the query ids with a vote bin are those with
\* a retained hit so far, each weight is the sum over the retained hits of
\* its query and category, and once a weight is there no retained hit made
\* it smaller than it was before.
C17_BinsOnlyGrow ==
    /\ DOMAIN vote_bins = RetainedQueries
    /\ \A q \in DOMAIN vote_bins :
          \A i \in 1..Len(vote_bins[q]) :
              LET c == vote_bins[q][i].cat
              IN  /\ vote_bins[q][i].w = WeightUpTo(q, c, Len(retained))
                  /\ \A k \in (FirstSeenAt(q, c) + 1)..Len(retained) :
                        WeightUpTo(q, c, k - 1) <= WeightUpTo(q, c, k)

-----------------------------------------------------------------------------
(* A classification run that can be interrupted: from the call of        *)
(* cmd_classify to the exit of the process, the final results written    *)
(* row by row                                                            *)

InterruptItems ==
    {[ch |-> "out", line |-> l] : l \in {HitA60, HitNoSep}}
    \cup {[ch |-> "err", line |-> ErrLine]}

\* the state when main calls cmd_classify (line 537)
InitInterrupt ==
    /\ cl_args \in [id_thr : {Half}, cov_thr : {Half}, min_mapq : {0},
                    sep : {"|"}, save_filtered_hits : BOOLEAN]
    /\ plan \in SeqsUpTo(InterruptItems, MaxStream)
    /\ out_pipe = <<>>
    /\ err_pipe = <<>>
    /\ al_pc = "idle"
    /\ rc = 0
    /\ cl_pc = "start"
    /\ vote_bins = NoBins
    /\ total_paf = 0
    /\ kept_hits = 0
    /\ hits_file = [exists |-> FALSE, rows |-> <<>>]
    /\ final_file = [exists |-> FALSE, rows |-> <<>>]
    /\ stderr = <<>>
    /\ cl_err = ""
    /\ consumed = <<>>
    /\ retained = <<>>
    /\ shown = <<>>
    /\ stats = <<>>
    /\ IdleDownload
    /\ IdleResolve
    /\ IdleFilter
    /\ IdleParse
    /\ IdleMain
    /\ IdleAcquirers

\* cmd_classify, lines 297-329, with the aligner installed, the reference
\* and the query in place: the hits file is opened when asked for and the
\* aligner is started
Launch ==
    /\ cl_pc = "start"
    /\ hits_file' = [exists |-> cl_args.save_filtered_hits, rows |-> <<>>]
    /\ al_pc' = "running"
    /\ cl_pc' = "read_stdout"
    /\ UNCHANGED <<cl_args, plan, out_pipe, err_pipe, rc, vote_bins, total_paf,
                   kept_hits, final_file, stderr, cl_err, consumed, retained,
                   shown, stats>>
    /\ UNCHANGED <<dlVars, rsVars, ftVars, psVars, mnVars, aqVars>>

\* cmd_classify, lines 371-373: the final results file is opened for
\* writing, which creates it empty, and the header is written
WriteOpen ==
    /\ cl_pc = "write_results"
    /\ final_file' = [exists |-> TRUE, rows |-> <<>>]
    /\ stats' = Tally(<<>>)
    /\ cl_pc' = "writing"
    /\ UNCHANGED <<cl_args, plan, out_pipe, err_pipe, al_pc, rc, vote_bins,
                   total_paf, kept_hits, hits_file, stderr, cl_err,
                   consumed, retained, shown>>
    /\ UNCHANGED <<dlVars, rsVars, ftVars, psVars, mnVars, aqVars>>

\* cmd_classify, lines 374-379: one iteration of the loop over the sorted ids
WriteRow ==
    /\ cl_pc = "writing"
    /\ Len(final_file.rows) < Len(FinalRows(vote_bins))
    /\ LET rows == Append(final_file.rows,
                          FinalRows(vote_bins)[Len(final_file.rows) + 1])
       IN  /\ final_file' = [final_file EXCEPT !.rows = rows]
           /\ stats' = Tally(rows)
    /\ UNCHANGED <<cl_args, plan, out_pipe, err_pipe, al_pc, rc, cl_pc, vote_bins,
                   total_paf, kept_hits, hits_file, stderr, cl_err,
                   consumed, retained, shown>>
    /\ UNCHANGED <<dlVars, rsVars, ftVars, psVars, mnVars, aqVars>>

\* cmd_classify, lines 374 and 381-395: the loop is over, the file is
\* closed, the summary is printed and cmd_classify returns
WriteClose ==
    /\ cl_pc = "writing"
    /\ Len(final_file.rows) = Len(FinalRows(vote_bins))
    /\ cl_pc' = "done"
    /\ UNCHANGED <<cl_args, plan, out_pipe, err_pipe, al_pc, rc, vote_bins,
                   total_paf, kept_hits, hits_file, final_file, stderr, cl_err,
                   consumed, retained, shown, stats>>
    /\ UNCHANGED <<dlVars, rsVars, ftVars, psVars, mnVars, aqVars>>

\* Ctrl-C while cmd_classify runs: KeyboardInterrupt is raised where the
\* host is, the `with` blocks close what is open and keep what was written,
\* and main (lines 538-540) exits
Interrupt ==
    /\ cl_pc \in {"start", "read_stdout", "read_stderr", "wait",
                  "write_results", "writing"}
    /\ cl_pc' = "interrupted"
    /\ cl_err' = "KeyboardInterrupt"
    /\ exit_code' = ExitStatus([kind |-> "interrupted", type |-> "KeyboardInterrupt"])
    /\ UNCHANGED <<cl_args, plan, out_pipe, err_pipe, al_pc, rc, vote_bins,
                   total_paf, kept_hits, hits_file, final_file, stderr,
                   consumed, retained, shown, stats>>
    /\ UNCHANGED <<mn_cmd, mn_pc, mn_exc, codes>>
    /\ UNCHANGED <<dlVars, rsVars, ftVars, psVars, aqVars>>

\* main, lines 537 and 541-543: cmd_classify has returned or has raised
\* RuntimeError, and the process exits
ClassifyExit ==
    /\ cl_pc \in {"done", "failed"}
    /\ exit_code = 0 - 1
    /\ exit_code' = ExitStatus(IF cl_pc = "done" THEN NoException
                               ELSE [kind |-> "external_process_failure",
                                     type |-> "RuntimeError"])
    /\ UNCHANGED <<mn_cmd, mn_pc, mn_exc, codes>>
    /\ UNCHANGED <<dlVars, rsVars, ftVars, clVars, psVars, aqVars>>

NextInterrupt ==
    \/ Launch
    \/ AlignerWrite
    \/ AlignerExit
    \/ ReadStdoutLine
    \/ StdoutEof
    \/ ReadStderr
    \/ StderrEof
    \/ WaitExit
    \/ WriteOpen
    \/ WriteRow
    \/ WriteClose
    \/ Interrupt
    \/ ClassifyExit

SpecInterrupt == InitInterrupt /\ [][NextInterrupt]_vars

-----------------------------------------------------------------------------
(* Properties of an interrupted run *)

\* the exit statuses of success and of the failures that are not an interrupt
OtherExitStatuses ==
    {ExitStatus(NoException)}
    \cup {ExitStatus([kind |-> r.kind, type |-> r.type]) : r \in Raises}

\* C18: a run that was interrupted, wherever it was, has ended with an exit
\* status that no success and no other failure has, and the final results
\* path holds no partial file: it holds nothing, or the header and all rows.
C18_InterruptLeavesNoPartialFile ==
    cl_pc = "interrupted" =>
        /\ exit_code \notin OtherExitStatuses
        /\ exit_code # 0 - 1
        /\ final_file.exists => final_file.rows = FinalRows(vote_bins)

-----------------------------------------------------------------------------
(* Two acquisitions of the same destination: download_file runs in two   *)
(* processes with the same dest, hence the same temporary sibling path   *)

Acquirers == {1, 2}

\* the byte a hole reads as when a process writes past the end of the file.
\* It is a zero byte; it has a code of its own here to keep the fingerprint
\* of sha256_file free of collisions.
Hole == 12

\* write(b) at file offset off: a hole is left when the file is shorter
WriteAt(data, off, b) ==
    [i \in 1..(IF off + 1 > Len(data) THEN off + 1 ELSE Len(data)) |->
        IF i = off + 1 THEN b
        ELSE IF i <= Len(data) THEN data[i]
        ELSE Hole]

InitAcquirers ==
    /\ aq \in [Acquirers ->
                 [pc : {"open"}, remote : Contents, expected : {GoodSha, OtherSha},
                  fd : {0}, off : {0}, got : {<<>>}, renamed : {0}, err : {""}]]
    /\ inodes = <<>>
    /\ aq_dest = 0
    /\ aq_tmp = 0
    /\ IdleDownload
    /\ IdleResolve
    /\ IdleFilter
    /\ IdleClassify
    /\ IdleParse
    /\ IdleMain

\* download_file, lines 195-201: urlretrieve opens the temporary sibling
\* for writing: the file at the path is truncated, or a new one is created
AqOpen(p) ==
    /\ aq[p].pc = "open"
    /\ LET ino == IF aq_tmp = 0 THEN Len(inodes) + 1 ELSE aq_tmp
       IN  /\ inodes' = IF aq_tmp = 0 THEN Append(inodes, <<>>)
                        ELSE [inodes EXCEPT ![aq_tmp] = <<>>]
           /\ aq_tmp' = ino
           /\ aq' = [aq EXCEPT ![p].pc = "transfer", ![p].fd = ino, ![p].off = 0]
    /\ UNCHANGED aq_dest
    /\ UNCHANGED <<dlVars, rsVars, ftVars, clVars, psVars, mnVars>>

\* urlretrieve, line 201: one more block goes to the open file, at the
\* offset of this process
AqChunk(p) ==
    /\ aq[p].pc = "transfer"
    /\ aq[p].off < Len(aq[p].remote)
    /\ inodes' = [inodes EXCEPT
                    ![aq[p].fd] = WriteAt(@, aq[p].off, aq[p].remote[aq[p].off + 1])]
    /\ aq' = [aq EXCEPT ![p].off = @ + 1]
    /\ UNCHANGED <<aq_dest, aq_tmp>>
    /\ UNCHANGED <<dlVars, rsVars, ftVars, clVars, psVars, mnVars>>

\* download_file, lines 203-204: the file at the temporary path is hashed
\* and compared; sha256_file raises when nothing is at the path
AqVerify(p) ==
    /\ aq[p].pc = "transfer"
    /\ aq[p].off = Len(aq[p].remote)
    /\ IF aq_tmp = 0
       THEN aq' = [aq EXCEPT ![p].pc = "failed", ![p].err = "FileNotFoundError"]
       ELSE LET got_ == sha256_file(File(inodes[aq_tmp]))
            IN  aq' = [aq EXCEPT ![p].got = got_,
                                 ![p].pc = IF got_ = aq[p].expected
                                           THEN "replace" ELSE "unlink"]
    /\ UNCHANGED <<inodes, aq_dest, aq_tmp>>
    /\ UNCHANGED <<dlVars, rsVars, ftVars, clVars, psVars, mnVars>>

\* download_file, lines 205-206: unlink(missing_ok=True), then raise
AqUnlink(p) ==
    /\ aq[p].pc = "unlink"
    /\ aq_tmp' = 0
    /\ aq' = [aq EXCEPT ![p].pc = "failed", ![p].err = "sha256_mismatch"]
    /\ UNCHANGED <<inodes, aq_dest>>
    /\ UNCHANGED <<dlVars, rsVars, ftVars, clVars, psVars, mnVars>>

\* download_file, line 208: tmp.replace(dest) renames whatever is at the
\* temporary path, and raises when nothing is there
AqReplace(p) ==
    /\ aq[p].pc = "replace"
    /\ IF aq_tmp = 0
       THEN /\ aq' = [aq EXCEPT ![p].pc = "failed", ![p].err = "FileNotFoundError"]
            /\ UNCHANGED <<aq_dest, aq_tmp>>
       ELSE /\ aq_dest' = aq_tmp
            /\ aq_tmp' = 0
            /\ aq' = [aq EXCEPT ![p].pc = "done", ![p].renamed = aq_tmp]
    /\ UNCHANGED inodes
    /\ UNCHANGED <<dlVars, rsVars, ftVars, clVars, psVars, mnVars>>

NextAcquirers ==
    \E p \in Acquirers :
        \/ AqOpen(p)
        \/ AqChunk(p)
        \/ AqVerify(p)
        \/ AqUnlink(p)
        \/ AqReplace(p)

SpecAcquirers == InitAcquirers /\ [][NextAcquirers]_vars

-----------------------------------------------------------------------------
(* Properties of two acquisitions *)

\* C19: in every interleaving of two acquisitions of the same destination,
\* as long as the file an acquisition renamed is at the destination path its
\* content has the digest that acquisition expected, which is so in
\* particular when the acquisition reports success.
C19_DestVerifiedUnderConcurrency ==
    \A p \in Acquirers :
        (aq[p].renamed # 0 /\ aq_dest = aq[p].renamed) =>
            sha256_file(File(inodes[aq_dest])) = aq[p].expected

\* the sum of the values of a function with numbers as values
RECURSIVE SumOf(_, _)
SumOf(f, S) ==
    IF S = {} THEN 0
    ELSE LET x == CHOOSE y \in S : TRUE
         IN  f[x] + SumOf(f, S \ {x})

\* C20: after a successful run, retained hits <= lines seen; distinct query
\* ids <= retained hits; the final results have one row per distinct query
\* id; the per-category win tallies sum to that number; and the filtered-hits
\* file, when asked for, has one row per retained hit, in stream order.
C20_CountsConsistent ==
    cl_pc = "done" =>
        LET unique_ids == Cardinality(DOMAIN vote_bins)
        IN  /\ kept_hits <= total_paf
            /\ unique_ids <= kept_hits
            /\ Len(final_file.rows) = unique_ids
            /\ SumOf(stats, DOMAIN stats) = unique_ids
            /\ kept_hits = Len(retained)
            /\ hits_file.exists = cl_args.save_filtered_hits
            /\ hits_file.exists =>
                  /\ Len(hits_file.rows) = kept_hits
                  /\ \A i \in 1..kept_hits :
                        /\ hits_file.rows[i].read_id = retained[i].qname
                        /\ hits_file.rows[i].score = retained[i].nmatch

\* three lines seen, two hits retained for two query ids that the same
\* category wins, hits file written
C20_Witness ==
    /\ cl_pc = "done"
    /\ cl_args.save_filtered_hits
    /\ total_paf = 3
    /\ kept_hits = 2
    /\ Len(final_file.rows) = 2
    /\ Len(hits_file.rows) = 2
    /\ stats[CatA] = 2

-----------------------------------------------------------------------------
(* Classification of a stream with malformed and blank lines *)

\* twelve fields, the matched-base count not a number
BadFieldLine ==
    Join(<<R2, IntText(150), <<"0">>, IntText(100), <<"+">>,
           <<"A", "|", "1">>, IntText(100), <<"0">>, IntText(100),
           <<"x">>, IntText(100), IntText(30)>>, TAB)

SkipItems ==
    {[ch |-> "out", line |-> l] : l \in {HitB, ShortLine, BadFieldLine, BlankLine}}
    \cup {[ch |-> "err", line |-> ErrLine]}

InitSkip == InitRun(SkipItems)

SpecSkip == InitSkip /\ [][NextClassify]_vars

-----------------------------------------------------------------------------
(* Properties of malformed and blank lines *)

\* the lines of the stream that are malformed, blank, or neither
IsMalformedLine(l) == l \in {ShortLine, BadFieldLine}

IsBlankLine(l) == l = BlankLine

IsRecordLine(l) == ~IsMalformedLine(l) /\ ~IsBlankLine(l)

\* C14: after any number of lines, the vote bins, the retained-hit count and
\* the filtered-hits rows are what the well-formed lines read so far give when
\* processed on their own; the line count is theirs plus one for each
\* malformed line and nothing for a blank line; no line aborts the run.
C14_MalformedAndBlankSkipped ==
    LET ref == ProcessAll(FreshRun, SelectSeq(consumed, IsRecordLine), cl_args)
    IN  /\ vote_bins = ref.vote_bins
        /\ kept_hits = ref.kept_hits
        /\ hits_file.rows = ref.hits
        /\ total_paf = ref.total_paf + Len(SelectSeq(consumed, IsMalformedLine))
        /\ cl_err \in {"", "minimap2_failed"}

\* a retained hit read after a malformed line and a blank line
C14_Witness ==
    /\ consumed = <<BadFieldLine, BlankLine, HitB>>
    /\ kept_hits = 1
    /\ total_paf = 2

=============================================================================
